---- MODULE Spec2Model ----
(***************************************************************************)
(* The memory record store of mcp-server-memory: the category-file codec   *)
(* of MemoryStorage (src/src/lib/memory-storage.ts), the file system it    *)
(* works on, and the six store operations.                                 *)
(*                                                                         *)
(* Text is a sequence of one-character strings.  A path is a sequence of   *)
(* segments, every segment a text; <<>> is the file-system root.           *)
(***************************************************************************)
EXTENDS Integers, Sequences, FiniteSets, TLC

VARIABLES
  dirs,     \* the directories that exist (a set of paths)
  files,    \* the regular files that exist: path -> content
  phase,    \* "args" before getMemoryConfig has run, "boot" before
            \* initializeStorage has run, "run" after, "down" when it threw
  persist,  \* memoryConfig.enablePersistence
  last,     \* the store call that completed last, with its result
  hist,     \* per file path, the remember calls that appended to it since it
            \* was last created (frags), and whether no removeSpecificMemory
            \* has rewritten it since (pure)
  nops,     \* number of mutating store calls made so far
  calls,    \* the store calls in flight (used by the interleaved runs)
  suite,    \* the suite of inputs this run draws its calls from
  proc      \* the process: its home and working directory, its arguments,
            \* the configuration made of them and what startup did with it

vars == <<dirs, files, phase, persist, last, hist, nops, calls, suite, proc>>

----------------------------------------------------------------------------
(* Bounds of the model *)

\* mutating store calls in one run
MaxOps == 3

----------------------------------------------------------------------------
(* Characters and text *)

\* the backslash character
BS == "\\"

\* '\\n' in the source: the two characters backslash and n
LT == <<BS, "n">>

\* '\\n\\n' in the source: the record separator the code writes and splits on
SEP == LT \o LT

\* what String.prototype.trim strips
WhiteSpace == {" ", "\t", "\n", "\r"}

\* s.startsWith(p)
StartsWith(s, p) == Len(s) >= Len(p) /\ SubSeq(s, 1, Len(p)) = p

\* s.endsWith(p)
EndsWith(s, p) == Len(s) >= Len(p) /\ SubSeq(s, Len(s) - Len(p) + 1, Len(s)) = p

\* s.indexOf(sub), 1-based; 0 when sub does not occur
IndexOf(s, sub) ==
  LET hits == {i \in 1..(Len(s) - Len(sub) + 1) : SubSeq(s, i, i + Len(sub) - 1) = sub}
  IN IF hits = {} THEN 0 ELSE CHOOSE i \in hits : \A j \in hits : i <= j

\* s.includes(sub)
Includes(s, sub) == Len(sub) = 0 \/ IndexOf(s, sub) # 0

\* s.split(sep) for a non-empty string separator (i and the rest of the
\* text are bound as values, so that each is computed once)
RECURSIVE Split(_, _)
Split(s, sep) ==
  CHOOSE parts \in
    {IF i = 0 THEN <<s>>
     ELSE <<SubSeq(s, 1, i - 1)>>
          \o (CHOOSE more \in {Split(rest, sep) : rest \in {SubSeq(s, i + Len(sep), Len(s))}} : TRUE)
     : i \in {IndexOf(s, sep)}} : TRUE

\* parts.join(sep)
RECURSIVE Join(_, _)
Join(parts, sep) ==
  IF Len(parts) = 0 THEN <<>>
  ELSE IF Len(parts) = 1 THEN parts[1]
  ELSE parts[1] \o sep \o Join(Tail(parts), sep)

\* s.trim()
Trim(s) ==
  LET keep == {i \in 1..Len(s) : s[i] \notin WhiteSpace}
  IN IF keep = {} THEN <<>>
     ELSE SubSeq(s, CHOOSE i \in keep : \A j \in keep : i <= j,
                    CHOOSE i \in keep : \A j \in keep : i >= j)

\* s.split(/\\s+/): the regular expression of the source matches a
\* backslash followed by one or more letters s
RECURSIVE SplitTags(_)
SplitTags(s) ==
  LET hits == {i \in 1..(Len(s) - 1) : s[i] = BS /\ s[i + 1] = "s"}
  IN IF hits = {} THEN <<s>>
     ELSE LET i == CHOOSE h \in hits : \A j \in hits : h <= j
              run == {k \in (i + 1)..Len(s) : \A m \in (i + 1)..k : s[m] = "s"}
              e == CHOOSE k \in run : \A j \in run : k >= j
          IN <<SubSeq(s, 1, i - 1)>> \o SplitTags(SubSeq(s, e + 1, Len(s)))

\* array.filter(pred) for pred = (line => line.trim())
RECURSIVE NonBlank(_)
NonBlank(lines) ==
  IF Len(lines) = 0 THEN <<>>
  ELSE (IF Len(Trim(Head(lines))) > 0 THEN <<Head(lines)>> ELSE <<>>)
       \o NonBlank(Tail(lines))

----------------------------------------------------------------------------
(* Record<string, string[]>: a JavaScript object, kept as the sequence of  *)
(* its own properties <<key, value>> in enumeration order.                 *)

Digits == <<"0", "1", "2", "3", "4", "5", "6", "7", "8", "9">>

IsDigit(c) == \E i \in 1..Len(Digits) : Digits[i] = c

DigitVal(c) == (CHOOSE i \in 1..Len(Digits) : Digits[i] = c) - 1

\* a property key that is a canonical array index ("0", "7", "12", ...);
\* the model's keys stay far below the 2^32 - 2 limit of an index
IsArrayIndex(k) ==
  /\ Len(k) \in 1..9
  /\ \A i \in 1..Len(k) : IsDigit(k[i])
  /\ (Len(k) > 1 => k[1] # "0")

RECURSIVE NumVal(_)
NumVal(k) == IF Len(k) = 0 THEN 0 ELSE 10 * NumVal(SubSeq(k, 1, Len(k) - 1)) + DigitVal(k[Len(k)])

ObjHas(m, k) == \E i \in 1..Len(m) : m[i][1] = k

ObjGet(m, k) == m[CHOOSE i \in 1..Len(m) : m[i][1] = k][2]

ObjKeys(m) == [i \in 1..Len(m) |-> m[i][1]]

\* m[k] = v: an existing property keeps its place; a new array-index key is
\* enumerated with the other index keys, first and in ascending numeric
\* order; any other new key goes last
ObjSet(m, k, v) ==
  IF ObjHas(m, k)
  THEN [i \in 1..Len(m) |-> IF m[i][1] = k THEN <<k, v>> ELSE m[i]]
  ELSE IF IsArrayIndex(k)
  THEN LET before == {i \in 1..Len(m) : IsArrayIndex(m[i][1]) /\ NumVal(m[i][1]) < NumVal(k)}
           n == Cardinality(before)
       IN SubSeq(m, 1, n) \o <<<<k, v>>>> \o SubSeq(m, n + 1, Len(m))
  ELSE Append(m, <<k, v>>)

\* Object.values(m) pushed into one array
RECURSIVE Flatten(_)
Flatten(m) == IF Len(m) = 0 THEN <<>> ELSE m[1][2] \o Flatten(Tail(m))

----------------------------------------------------------------------------
(* The category-file codec *)

untaggedKey == <<"u", "n", "t", "a", "g", "g", "e", "d">>

\* (mutant) the tag line is not ended before the body
rememberContent_NoLineBreak(data, tags) ==
  (IF Len(tags) > 0 THEN <<"#", " ">> \o Join(tags, <<" ">>) ELSE <<>>) \o data \o SEP

\* the text remember appends
rememberContent(data, tags) ==
  (IF Len(tags) > 0 THEN <<"#", " ">> \o Join(tags, <<" ">>) \o LT ELSE <<>>)
  \o data \o SEP

\* the key of a block whose first line starts with '#'
tagKey(firstLine) == Join(SplitTags(Trim(Tail(firstLine))), <<" ">>)

\* (mutant) the first line of an untagged block is dropped like a tag line
decodeEntry_SkipsFirstLine(memories, entry) ==
  IF Len(Trim(entry)) = 0 THEN memories
  ELSE LET lines == Split(entry, LT)
           firstLine == lines[1]
       IN IF StartsWith(firstLine, <<"#">>)
          THEN ObjSet(memories, tagKey(firstLine), NonBlank(Tail(lines)))
          ELSE LET m1 == IF ObjHas(memories, untaggedKey) THEN memories
                         ELSE ObjSet(memories, untaggedKey, <<>>)
               IN ObjSet(m1, untaggedKey, ObjGet(m1, untaggedKey) \o NonBlank(Tail(lines)))

\* one pass of retrieve's loop body over entry, updating memories
decodeEntry(memories, entry) ==
  IF Len(Trim(entry)) = 0 THEN memories
  ELSE LET lines == Split(entry, LT)
           firstLine == lines[1]
       IN IF StartsWith(firstLine, <<"#">>)
          THEN ObjSet(memories, tagKey(firstLine), NonBlank(Tail(lines)))
          ELSE LET m1 == IF ObjHas(memories, untaggedKey) THEN memories
                         ELSE ObjSet(memories, untaggedKey, <<>>)
               IN ObjSet(m1, untaggedKey, ObjGet(m1, untaggedKey) \o NonBlank(lines))

\* retrieve's loop over the entries (the mapping after an entry is bound
\* as a value, so that it is computed once)
RECURSIVE decodeEntries(_, _)
decodeEntries(memories, entries) ==
  IF Len(entries) = 0 THEN memories
  ELSE CHOOSE result \in
         {decodeEntries(m, rest) : m \in {decodeEntry(memories, Head(entries))},
                                  rest \in {Tail(entries)}} : TRUE

\* retrieve's parse of a file's content
decode(content) ==
  CHOOSE result \in {decodeEntries(<<>>, entries) : entries \in {Split(content, SEP)}} : TRUE

\* (mutant) the filter keeps the blocks that match
RECURSIVE filterOut_KeepsMatches(_, _)
filterOut_KeepsMatches(memories, memoryContent) ==
  IF Len(memories) = 0 THEN <<>>
  ELSE (IF Includes(Head(memories), memoryContent) THEN <<Head(memories)>> ELSE <<>>)
       \o filterOut_KeepsMatches(Tail(memories), memoryContent)

\* (mutant) only the first block that matches is dropped
RECURSIVE filterOut_FirstOnly(_, _)
filterOut_FirstOnly(memories, memoryContent) ==
  IF Len(memories) = 0 THEN <<>>
  ELSE IF Includes(Head(memories), memoryContent) THEN Tail(memories)
       ELSE <<Head(memories)>> \o filterOut_FirstOnly(Tail(memories), memoryContent)

\* memories.filter(memory => !memory.includes(memoryContent))
RECURSIVE filterOut(_, _)
filterOut(memories, memoryContent) ==
  IF Len(memories) = 0 THEN <<>>
  ELSE (IF Includes(Head(memories), memoryContent) THEN <<>> ELSE <<Head(memories)>>)
       \o filterOut(Tail(memories), memoryContent)

\* (mutant) blank fragments are dropped like retrieve drops them
removeContent_SkipsBlank(content, memoryContent) ==
  Join(filterOut(NonBlank(Split(content, SEP)), memoryContent), SEP)

\* the content removeSpecificMemory writes back
removeContent(content, memoryContent) ==
  Join(filterOut(Split(content, SEP), memoryContent), SEP)

----------------------------------------------------------------------------
(* Paths *)

TXT == <<".", "t", "x", "t">>

\* memoryConfig.globalStorageLocation and .localStorageLocation: two
\* distinct directories, here /t/g and /t/l
globalStorageLocation == <<<<"t">>, <<"g">>>>

localStorageLocation == <<<<"t">>, <<"l">>>>

\* const baseDir = isGlobal ? globalStorageLocation : localStorageLocation
baseDir(isGlobal) == IF isGlobal THEN globalStorageLocation ELSE localStorageLocation

Parent(p) == SubSeq(p, 1, Len(p) - 1)

Name(p) == p[Len(p)]

\* path.join's normalisation: the segments of the joined text are applied
\* to the path one by one; "" and "." stay, ".." goes up
RECURSIVE Walk(_, _)
Walk(p, segs) ==
  IF Len(segs) = 0 THEN p
  ELSE LET s == Head(segs)
           q == IF s = <<>> \/ s = <<".">> THEN p
                ELSE IF s = <<".", ".">> THEN (IF Len(p) = 0 THEN p ELSE Parent(p))
                ELSE Append(p, s)
       IN Walk(q, Tail(segs))

\* path.join(baseDir, `${category}.txt`)
getMemoryFilePath(category, isGlobal) ==
  Walk(baseDir(isGlobal), Split(category \o TXT, <<"/">>))

\* p is d or lies below d
Under(p, d) == Len(p) >= Len(d) /\ SubSeq(p, 1, Len(d)) = d

----------------------------------------------------------------------------
(* The file system: d is the set of directories, f the function from the   *)
(* paths of the regular files to their content.  Every primitive returns   *)
(* the file system after it together with "ok" or the error code.          *)

FsResult(d, f, status, value) == [d |-> d, f |-> f, status |-> status, value |-> value]

\* fs.existsSync(p)
existsSync(d, f, p) == p \in d \/ p \in DOMAIN f

\* f with path p set to content c
Put(f, p, c) == [q \in DOMAIN f \cup {p} |-> IF q = p THEN c ELSE f[q]]

\* f without the paths in ps
Drop(f, ps) == [q \in DOMAIN f \ ps |-> f[q]]

\* fs.promises.readFile(p, 'utf-8')
readFile(d, f, p) ==
  IF p \in DOMAIN f THEN FsResult(d, f, "ok", f[p])
  ELSE IF p \in d THEN FsResult(d, f, "EISDIR", <<>>)
  ELSE FsResult(d, f, "ENOENT", <<>>)

\* the outcome of opening p for writing, creating it when absent
OpenForWrite(d, f, p) ==
  IF p \in d THEN "EISDIR"
  ELSE IF p \in DOMAIN f THEN "ok"
  ELSE IF Len(p) = 0 THEN "EISDIR"
  ELSE IF Parent(p) \in d THEN "ok"
  ELSE IF Parent(p) \in DOMAIN f THEN "ENOTDIR"
  ELSE "ENOENT"

\* fs.promises.appendFile(p, c)
appendFile(d, f, p, c) ==
  LET st == OpenForWrite(d, f, p)
  IN IF st # "ok" THEN FsResult(d, f, st, <<>>)
     ELSE FsResult(d, Put(f, p, (IF p \in DOMAIN f THEN f[p] ELSE <<>>) \o c), "ok", <<>>)

\* fs.promises.writeFile(p, c)
writeFile(d, f, p, c) ==
  LET st == OpenForWrite(d, f, p)
  IN IF st # "ok" THEN FsResult(d, f, st, <<>>)
     ELSE FsResult(d, Put(f, p, c), "ok", <<>>)

\* fs.promises.unlink(p)
unlink(d, f, p) ==
  IF p \in DOMAIN f THEN FsResult(d, Drop(f, {p}), "ok", <<>>)
  ELSE IF p \in d THEN FsResult(d, f, "EISDIR", <<>>)
  ELSE FsResult(d, f, "ENOENT", <<>>)

\* fs.promises.rm(p, { recursive: true, force: true })
rm(d, f, p) ==
  FsResult({q \in d : ~Under(q, p)}, Drop(f, {q \in DOMAIN f : Under(q, p)}), "ok", <<>>)

\* the ancestors of p, p included
Ancestors(p) == {SubSeq(p, 1, n) : n \in 0..Len(p)}

\* fs.promises.mkdir(p, { recursive: true }) and fs.mkdirSync of the same
mkdir(d, f, p) ==
  IF \E q \in Ancestors(p) : q \in DOMAIN f THEN FsResult(d, f, "ENOTDIR", <<>>)
  ELSE FsResult(d \cup Ancestors(p), f, "ok", <<>>)

\* fs.promises.readdir(p): the names directly under p
readdir(d, f, p) ==
  IF p \in DOMAIN f THEN FsResult(d, f, "ENOTDIR", {})
  ELSE IF p \notin d THEN FsResult(d, f, "ENOENT", {})
  ELSE FsResult(d, f, "ok",
                {Name(q) : q \in {r \in d \cup DOMAIN f : Len(r) > 0 /\ Parent(r) = p}})

----------------------------------------------------------------------------
(* The store operations of MemoryStorage, each run from call to return on  *)
(* the file system <<d, f>>.  status is "ok" when the promise resolves and *)
(* the error code when it rejects.                                         *)

\* (mutant) the extension is kept in the category key
stripTxt_Keep(file) == file

\* file.replace('.txt', ''): the first occurrence is removed
stripTxt(file) ==
  LET i == IndexOf(file, TXT)
  IN IF i = 0 THEN file ELSE SubSeq(file, 1, i - 1) \o SubSeq(file, i + Len(TXT), Len(file))

remember(d, f, category, data, tags, isGlobal) ==
  appendFile(d, f, getMemoryFilePath(category, isGlobal), rememberContent(data, tags))

\* (mutant) retrieve leaves an empty file behind where there was none
retrieve_CreatesFile(d, f, category, isGlobal) ==
  LET filePath == getMemoryFilePath(category, isGlobal)
  IN IF ~existsSync(d, f, filePath)
     THEN [writeFile(d, f, filePath, <<>>) EXCEPT !.status = "ok", !.value = <<>>]
     ELSE LET r == readFile(d, f, filePath)
          IN IF r.status # "ok" THEN r ELSE FsResult(d, f, "ok", decode(r.value))

retrieve(d, f, category, isGlobal) ==
  LET filePath == getMemoryFilePath(category, isGlobal)
  IN IF ~existsSync(d, f, filePath) THEN FsResult(d, f, "ok", <<>>)
     ELSE LET r == readFile(d, f, filePath)
          IN IF r.status # "ok" THEN r ELSE FsResult(d, f, "ok", decode(r.value))

\* the result is kept as a function from the category keys to their flat
\* lists; the order of its keys is the order readdir happens to list them in
retrieveAll(d, f, isGlobal) ==
  IF ~existsSync(d, f, baseDir(isGlobal)) THEN FsResult(d, f, "ok", <<>>)
  ELSE LET ls == readdir(d, f, baseDir(isGlobal))
           cats == {stripTxt(file) : file \in {n \in ls.value : EndsWith(n, TXT)}}
           bad == {c \in cats : retrieve(d, f, c, isGlobal).status # "ok"}
       IN IF ls.status # "ok" THEN FsResult(d, f, ls.status, <<>>)
          ELSE IF bad # {} THEN FsResult(d, f, retrieve(d, f, CHOOSE c \in bad : TRUE, isGlobal).status, <<>>)
          ELSE FsResult(d, f, "ok", [c \in cats |-> Flatten(retrieve(d, f, c, isGlobal).value)])

\* (mutant) the file is read without the existence check
removeSpecificMemory_NoExistsCheck(d, f, category, memoryContent, isGlobal) ==
  LET filePath == getMemoryFilePath(category, isGlobal)
      r == readFile(d, f, filePath)
  IN IF r.status # "ok" THEN r
     ELSE writeFile(d, f, filePath, removeContent(r.value, memoryContent))

removeSpecificMemory(d, f, category, memoryContent, isGlobal) ==
  LET filePath == getMemoryFilePath(category, isGlobal)
  IN IF ~existsSync(d, f, filePath) THEN FsResult(d, f, "ok", <<>>)
     ELSE LET r == readFile(d, f, filePath)
          IN IF r.status # "ok" THEN r
             ELSE writeFile(d, f, filePath, removeContent(r.value, memoryContent))

\* (mutant) the file is emptied, not deleted
clearMemory_Truncates(d, f, category, isGlobal) ==
  LET filePath == getMemoryFilePath(category, isGlobal)
  IN IF existsSync(d, f, filePath) THEN writeFile(d, f, filePath, <<>>)
     ELSE FsResult(d, f, "ok", <<>>)

clearMemory(d, f, category, isGlobal) ==
  LET filePath == getMemoryFilePath(category, isGlobal)
  IN IF existsSync(d, f, filePath) THEN unlink(d, f, filePath)
     ELSE FsResult(d, f, "ok", <<>>)

\* (mutant) the root is removed and not created again
clearAllGlobalOrLocalMemories_NoMkdir(d, f, isGlobal) ==
  IF existsSync(d, f, baseDir(isGlobal)) THEN rm(d, f, baseDir(isGlobal))
  ELSE FsResult(d, f, "ok", <<>>)

clearAllGlobalOrLocalMemories(d, f, isGlobal) ==
  IF existsSync(d, f, baseDir(isGlobal))
  THEN LET r == rm(d, f, baseDir(isGlobal)) IN mkdir(r.d, r.f, baseDir(isGlobal))
  ELSE FsResult(d, f, "ok", <<>>)

\* if (!fs.existsSync(p)) fs.mkdirSync(p, { recursive: true }), after the
\* calls of log; the value is the log with the calls made here
ensureDir(d, f, p, log) ==
  IF existsSync(d, f, p)
  THEN FsResult(d, f, "ok", Append(log, <<"existsSync", p>>))
  ELSE LET r == mkdir(d, f, p)
       IN FsResult(r.d, r.f, r.status, log \o << <<"existsSync", p>>, <<"mkdirSync", p>> >>)

\* (mutant) the local directory is not looked at
initializeStorage_GlobalOnly(d, f, config) ==
  IF config.enablePersistence
  THEN ensureDir(d, f, config.globalStorageLocation, <<>>)
  ELSE FsResult(d, f, "ok", <<>>)

\* initializeStorage(config) of memory-config.ts; the locations of config are
\* the paths the file system resolves its strings to; the value is the
\* sequence of the fs calls made
initializeStorage(d, f, config) ==
  IF config.enablePersistence
  THEN LET g == ensureDir(d, f, config.globalStorageLocation, <<>>)
       IN IF g.status # "ok" THEN g
          ELSE ensureDir(g.d, g.f, config.localStorageLocation, g.value)
  ELSE FsResult(d, f, "ok", <<>>)

----------------------------------------------------------------------------
(* memory-config.ts.  The strings of paths are texts; the file system      *)
(* resolves a text to the sequence of the names on the way from the root.  *)

\* path.resolve(p) in a process whose working directory is the text cwd
resolve(cwd, p) ==
  IF StartsWith(p, <<"/">>) THEN Walk(<<>>, Split(p, <<"/">>))
  ELSE Walk(Walk(<<>>, Split(cwd, <<"/">>)), Split(p, <<"/">>))

\* the text of the path p
PathText(p) == <<"/">> \o Join(p, <<"/">>)

\* path.join(base, ...names) for an absolute text base
pathJoin(base, names) == PathText(Walk(resolve(<<"/">>, base), names))

\* path.relative(from, to): up from `from` to the deepest common ancestor,
\* then down to `to`
relative(cwd, from, to) ==
  LET a == resolve(cwd, from)
      b == resolve(cwd, to)
      common == {n \in 0..Len(a) : n <= Len(b) /\ SubSeq(a, 1, n) = SubSeq(b, 1, n)}
      k == CHOOSE n \in common : \A m \in common : m <= n
      ups == [i \in 1..(Len(a) - k) |-> <<".", ".">>]
  IN Join(ups \o SubSeq(b, k + 1, Len(b)), <<"/">>)

\* path.isAbsolute(p)
isAbsolute(p) == StartsWith(p, <<"/">>)

\* isUnderHome(dirPath) for os.homedir() = home and process.cwd() = cwd
isUnderHome(home, cwd, dirPath) ==
  LET absoluteDirPath == PathText(resolve(cwd, dirPath))
      absoluteHomePath == PathText(resolve(cwd, home))
      relativePath == relative(cwd, absoluteHomePath, absoluteDirPath)
  IN ~StartsWith(relativePath, <<".", ".">>) /\ ~isAbsolute(relativePath)

\* an option of the command line: given or not, and its value
Opt(given, value) == [given |-> given, value |-> value]

NotGiven == Opt(FALSE, <<>>)

\* program.opts() after program.parse(process.argv)
opts(argv) ==
  [globalStorage |-> argv.g, localStorage |-> argv.l, persistence |-> ~argv.noPersistence]

\* a || b on an option's value: undefined and '' are falsy
Truthy(o) == o.given /\ o.value # <<>>

GooseLocal == << <<".", "g", "o", "o", "s", "e">>, <<"m", "e", "m", "o", "r", "y">> >>

GooseGlobal == << <<".", "c", "o", "n", "f", "i", "g">>, <<"g", "o", "o", "s", "e">>,
                 <<"m", "e", "m", "o", "r", "y">> >>

\* (mutant) an option given as the empty string is taken as it is
getMemoryConfig_KeepsEmpty(home, cwd, argv) ==
  LET options == opts(argv)
  IN [globalStorageLocation |-> IF options.globalStorage.given
                                THEN options.globalStorage.value
                                ELSE pathJoin(home, GooseGlobal),
      localStorageLocation |-> IF options.localStorage.given
                               THEN options.localStorage.value
                               ELSE pathJoin(cwd, GooseLocal),
      enablePersistence |-> options.persistence # FALSE]

\* getMemoryConfig() for the arguments argv
getMemoryConfig(home, cwd, argv) ==
  LET options == opts(argv)
  IN [globalStorageLocation |-> IF Truthy(options.globalStorage)
                                THEN options.globalStorage.value
                                ELSE pathJoin(home, GooseGlobal),
      localStorageLocation |-> IF Truthy(options.localStorage)
                               THEN options.localStorage.value
                               ELSE pathJoin(cwd, GooseLocal),
      enablePersistence |-> options.persistence # FALSE]

\* the configuration as the file system sees it in a process working in cwd
OnDisk(config, cwd) ==
  [globalStorageLocation |-> resolve(cwd, config.globalStorageLocation),
   localStorageLocation |-> resolve(cwd, config.localStorageLocation),
   enablePersistence |-> config.enablePersistence]

----------------------------------------------------------------------------
(* The inputs the runs draw from.  A run draws all its calls from one     *)
(* suite of inputs, fixed at its start; the suites together cover the     *)
(* tag lists, the bodies, the categories and the areas.                   *)

A == <<"a">>

B == <<"b">>

\* a category that climbs out of the area root: "../a"
UpA == <<".", ".", "/", "a">>

\* a category that names the file a.txt of the global area from the local one
UpGA == <<".", ".", "/", "g", "/", "a">>

\* a body of two lines
TwoLines == A \o LT \o B

\* a body that ends with the line terminator
OpenLine == B \o LT

\* a body that is blank
Blank == <<" ">>

\* one tag that holds backslash-s
\* category names that hold the extension: "b.txt" and ".txtb"
BTxt == <<"b", ".", "t", "x", "t">>

TxtB == <<".", "t", "x", "t", "b">>

\* a body that starts like a tag line
Hash == <<"#", "a">>

SlashTag == <<"a", BS, "s", "b">>

\* a tag that is a canonical array index
One == <<"1">>

\* one tag that holds two spaces in a row
TwoSpaces == <<"a", " ", " ", "b">>

Suites == {"tags", "slash", "keys", "text", "lines", "areas", "cross", "cats", "dots"}

Categories ==
  CASE suite = "areas" -> {A, UpA}
    [] suite = "cross" -> {A, UpGA}
    [] suite = "cats" -> {A, B}
    [] suite = "dots" -> {BTxt, TxtB}
    [] OTHER -> {A}

Areas == IF suite \in {"areas", "cross"} THEN BOOLEAN ELSE {TRUE}

Bodies ==
  CASE suite \in {"tags", "slash", "keys"} -> {A, B}
    [] suite \in {"text", "lines"} -> {A, TwoLines, OpenLine, Blank, Hash}
    [] suite = "cats" -> {A, B}
    [] suite = "race" -> {A, B}
    [] OTHER -> {A}

TagLists ==
  CASE suite = "tags" -> {<<>>, <<A>>, <<A, B>>}
    [] suite = "slash" -> {<<>>, <<SlashTag>>, <<TwoSpaces>>}
    [] suite = "keys" -> {<<A>>, <<One>>}
    [] suite = "text" -> {<<A>>}
    [] suite = "lines" -> {<<>>}
    [] suite = "cats" -> {<<>>, <<A>>}
    [] OTHER -> {<<>>}

\* the memory_content of remove_specific_memory
Needles ==
  CASE suite \in {"tags", "race"} -> {A, B}
    [] suite \in {"text", "lines"} -> {A, <<"n">>}
    [] OTHER -> {A}

\* how a run starts: the suite, enablePersistence, and whether the two
\* storage directories exist before startup
Starts ==
  {[suite |-> s, persist |-> TRUE, exist |-> FALSE] : s \in Suites}
  \cup {[suite |-> "areas", persist |-> FALSE, exist |-> x] : x \in BOOLEAN}

----------------------------------------------------------------------------
(* State *)

NoFiles == [p \in {} |-> <<>>]

NoCall ==
  [op |-> "none", category |-> <<>>, isGlobal |-> TRUE, data |-> <<>>, tags |-> <<>>,
   memoryContent |-> <<>>, status |-> "ok", value |-> <<>>,
   existed |-> FALSE, pre |-> <<>>, touched |-> {}]

\* a process before getMemoryConfig has run
Process(home, cwd, argv, dirPath) ==
  [home |-> home, cwd |-> cwd, argv |-> argv, dirPath |-> dirPath,
   config |-> [globalStorageLocation |-> <<>>, localStorageLocation |-> <<>>,
               enablePersistence |-> TRUE],
   status |-> "ok", fsCalls |-> <<>>, underHome |-> {}]

\* a process started in /t as  -g /t/g -l /t/l [--no-persistence], after
\* getMemoryConfig has run
Configured(enablePersistence) ==
  LET argv == [g |-> Opt(TRUE, PathText(globalStorageLocation)),
               l |-> Opt(TRUE, PathText(localStorageLocation)),
               noPersistence |-> ~enablePersistence]
      cwd == <<"/", "t">>
      home == <<"/", "h">>
  IN [Process(home, cwd, argv, <<>>) EXCEPT !.config = getMemoryConfig(home, cwd, argv)]

\* the paths whose existence or content differs between two file systems
Touched(d1, f1, d2, f2) ==
  {p \in (d1 \cup d2) \cup (DOMAIN f1 \cup DOMAIN f2) :
     \/ (p \in d1) # (p \in d2)
     \/ (p \in DOMAIN f1) # (p \in DOMAIN f2)
     \/ (p \in DOMAIN f1 /\ p \in DOMAIN f2 /\ f1[p] # f2[p])}

\* the record of a completed call on file path p with outcome r
Done(op, category, isGlobal, data, tags, memoryContent, p, r) ==
  [op |-> op, category |-> category, isGlobal |-> isGlobal, data |-> data, tags |-> tags,
   memoryContent |-> memoryContent, status |-> r.status, value |-> r.value,
   existed |-> p \in DOMAIN files,
   pre |-> IF p \in DOMAIN files THEN files[p] ELSE <<>>,
   touched |-> Touched(dirs, files, r.d, r.f)]

\* hist after a call that left the files f2: the history of a file ends
\* with the file
Kept(h, f2) == [p \in DOMAIN h \cap DOMAIN f2 |-> h[p]]

Init ==
  /\ \E st \in Starts :
       /\ suite = st.suite
       /\ persist = st.persist
       /\ dirs = {<<>>, <<<<"t">>>>}
                 \cup (IF st.exist THEN {globalStorageLocation, localStorageLocation} ELSE {})
  /\ files = NoFiles
  /\ phase = "boot"
  /\ proc = Configured(persist)
  /\ last = NoCall
  /\ hist = NoFiles
  /\ nops = 0
  /\ calls = <<>>

\* index.ts, module startup: initializeStorage(memoryConfig)
InitializeStorage ==
  /\ phase = "boot"
  /\ LET r == initializeStorage(dirs, files, OnDisk(proc.config, proc.cwd))
     IN /\ dirs' = r.d /\ files' = r.f
        /\ proc' = [proc EXCEPT !.status = r.status, !.fsCalls = r.value]
        \* an exception at module level ends the process
        /\ phase' = IF r.status = "ok" THEN "run" ELSE "down"
  /\ UNCHANGED <<persist, last, hist, nops, calls, suite>>

\* In the actions below r is the outcome of the call, computed once.
Remember(category, data, tags, isGlobal) ==
  /\ phase = "run" /\ nops < MaxOps
  /\ \E r \in {remember(dirs, files, category, data, tags, isGlobal)} :
     LET p == getMemoryFilePath(category, isGlobal)
         h == IF p \in DOMAIN hist THEN hist[p] ELSE [frags |-> <<>>, pure |-> TRUE]
     IN /\ dirs' = r.d /\ files' = r.f
        /\ last' = Done("remember", category, isGlobal, data, tags, <<>>, p, r)
        /\ hist' = IF r.status = "ok"
                   THEN Put(hist, p, [h EXCEPT !.frags = Append(@, [tags |-> tags, data |-> data, isGlobal |-> isGlobal])])
                   ELSE hist
  /\ nops' = nops + 1
  /\ UNCHANGED <<phase, persist, calls, suite, proc>>

Retrieve(category, isGlobal) ==
  /\ phase = "run"
  /\ \E r \in {retrieve(dirs, files, category, isGlobal)} :
     LET p == getMemoryFilePath(category, isGlobal)
     IN /\ dirs' = r.d /\ files' = r.f
        /\ last' = Done("retrieve", category, isGlobal, <<>>, <<>>, <<>>, p, r)
  /\ UNCHANGED <<phase, persist, hist, nops, calls, suite, proc>>

RetrieveAll(isGlobal) ==
  /\ phase = "run"
  /\ \E r \in {retrieveAll(dirs, files, isGlobal)} :
     /\ dirs' = r.d /\ files' = r.f
     /\ last' = Done("retrieveAll", <<>>, isGlobal, <<>>, <<>>, <<>>, baseDir(isGlobal), r)
  /\ UNCHANGED <<phase, persist, hist, nops, calls, suite, proc>>

RemoveSpecificMemory(category, memoryContent, isGlobal) ==
  /\ phase = "run" /\ nops < MaxOps
  /\ \E r \in {removeSpecificMemory(dirs, files, category, memoryContent, isGlobal)} :
     LET p == getMemoryFilePath(category, isGlobal)
     IN /\ dirs' = r.d /\ files' = r.f
        /\ last' = Done("removeSpecificMemory", category, isGlobal, <<>>, <<>>, memoryContent, p, r)
        /\ hist' = IF r.status = "ok" /\ p \in DOMAIN hist
                   THEN [hist EXCEPT ![p].pure = FALSE]
                   ELSE hist
  /\ nops' = nops + 1
  /\ UNCHANGED <<phase, persist, calls, suite, proc>>

ClearMemory(category, isGlobal) ==
  /\ phase = "run" /\ nops < MaxOps
  /\ \E r \in {clearMemory(dirs, files, category, isGlobal)} :
     LET p == getMemoryFilePath(category, isGlobal)
     IN /\ dirs' = r.d /\ files' = r.f
        /\ last' = Done("clearMemory", category, isGlobal, <<>>, <<>>, <<>>, p, r)
        /\ hist' = Kept(hist, r.f)
  /\ nops' = nops + 1
  /\ UNCHANGED <<phase, persist, calls, suite, proc>>

ClearAllGlobalOrLocalMemories(isGlobal) ==
  /\ phase = "run" /\ nops < MaxOps
  /\ \E r \in {clearAllGlobalOrLocalMemories(dirs, files, isGlobal)} :
     /\ dirs' = r.d /\ files' = r.f
     /\ last' = Done("clearAllGlobalOrLocalMemories", <<>>, isGlobal, <<>>, <<>>, <<>>,
                     baseDir(isGlobal), r)
     /\ hist' = Kept(hist, r.f)
  /\ nops' = nops + 1
  /\ UNCHANGED <<phase, persist, calls, suite, proc>>

Next ==
  \/ InitializeStorage
  \/ \E c \in Categories, b \in Bodies, t \in TagLists, g \in Areas : Remember(c, b, t, g)
  \/ \E c \in Categories, g \in Areas : Retrieve(c, g)
  \/ \E g \in Areas : RetrieveAll(g)
  \/ \E c \in Categories, m \in Needles, g \in Areas : RemoveSpecificMemory(c, m, g)
  \/ \E c \in Categories, g \in Areas : ClearMemory(c, g)
  \/ \E g \in Areas : ClearAllGlobalOrLocalMemories(g)

Spec == Init /\ [][Next]_vars

----------------------------------------------------------------------------
(* Calls in flight.  The store methods are async: each runs up to its next *)
(* file-system primitive, and the primitives of the calls in flight are    *)
(* carried out in any order that keeps each call's own order.  calls holds *)
(* one record per invoked call; pc names the primitive the call does next. *)

MaxCalls == 2

\* a call as invoked: remember goes straight to its append, every other
\* method starts with its existsSync
NewCall(op, category, data, tags, memoryContent, isGlobal) ==
  [op |-> op, category |-> category, isGlobal |-> isGlobal, data |-> data, tags |-> tags,
   memoryContent |-> memoryContent,
   pc |-> IF op = "remember" THEN "append" ELSE "exists",
   status |-> "pending", buf |-> <<>>, todo |-> <<>>, value |-> <<>>]

\* the promise of call c settles
Settle(c, status, value) == [c EXCEPT !.pc = "done", !.status = status, !.value = value]

\* the path a call's existsSync looks at
Target(c) ==
  IF c.op \in {"retrieveAll", "clearAllGlobalOrLocalMemories"} THEN baseDir(c.isGlobal)
  ELSE getMemoryFilePath(c.category, c.isGlobal)

\* the primitive a call goes on to when its existsSync said yes
AfterExists(op) ==
  CASE op = "retrieve" -> "read"
    [] op = "removeSpecificMemory" -> "read"
    [] op = "clearMemory" -> "unlink"
    [] op = "retrieveAll" -> "readdir"
    [] op = "clearAllGlobalOrLocalMemories" -> "rm"

\* the orders in which readdir may list the names in S
Orders(S) ==
  {q \in [1..Cardinality(S) -> S] : \A i, j \in 1..Cardinality(S) : i # j => q[i] # q[j]}

\* retrieveAll's loop after the file Head(c.todo) gave the flat list flat
NextFile(c, flat) ==
  LET category == stripTxt(Head(c.todo))
      memories == [k \in DOMAIN c.value \cup {category} |->
                     IF k = category THEN flat ELSE c.value[k]]
  IN IF Len(c.todo) = 1 THEN Settle([c EXCEPT !.todo = <<>>], "ok", memories)
     ELSE [c EXCEPT !.todo = Tail(@), !.value = memories, !.pc = "fileExists"]

InitConc ==
  /\ suite = "race"
  /\ persist = TRUE
  /\ dirs = {<<>>, <<<<"t">>>>, globalStorageLocation, localStorageLocation}
  /\ \E had \in {{}, {A}, {A, B}} :
       files = [p \in {getMemoryFilePath(c, TRUE) : c \in had} |-> rememberContent(A, <<>>)]
  /\ phase = "run"
  /\ proc = Configured(persist)
  /\ last = NoCall
  /\ hist = NoFiles
  /\ nops = 0
  /\ calls = <<>>

Invoke(op, category, data, tags, memoryContent, isGlobal) ==
  /\ Len(calls) < MaxCalls
  /\ calls' = Append(calls, NewCall(op, category, data, tags, memoryContent, isGlobal))
  /\ UNCHANGED <<dirs, files, phase, persist, last, hist, nops, suite, proc>>

\* if (!fs.existsSync(...)) return
CheckExists(i) ==
  /\ calls[i].pc = "exists"
  /\ LET c == calls[i]
     IN calls' = [calls EXCEPT ![i] =
                    IF existsSync(dirs, files, Target(c)) THEN [c EXCEPT !.pc = AfterExists(c.op)]
                    ELSE Settle(c, "ok", <<>>)]
  /\ UNCHANGED <<dirs, files, phase, persist, last, hist, nops, suite, proc>>

\* (mutant) remember writes the file anew
DoAppend_Overwrites(i) ==
  /\ calls[i].pc = "append"
  /\ LET c == calls[i]
         r == writeFile(dirs, files, Target(c), rememberContent(c.data, c.tags))
     IN /\ dirs' = r.d /\ files' = r.f
        /\ calls' = [calls EXCEPT ![i] = Settle(c, r.status, <<>>)]
  /\ UNCHANGED <<phase, persist, last, hist, nops, suite, proc>>

\* remember: await fs.promises.appendFile(filePath, content)
DoAppend(i) ==
  /\ calls[i].pc = "append"
  /\ LET c == calls[i]
         r == appendFile(dirs, files, Target(c), rememberContent(c.data, c.tags))
     IN /\ dirs' = r.d /\ files' = r.f
        /\ calls' = [calls EXCEPT ![i] = Settle(c, r.status, <<>>)]
  /\ UNCHANGED <<phase, persist, last, hist, nops, suite, proc>>

\* retrieve, removeSpecificMemory: await fs.promises.readFile(filePath, 'utf-8')
DoRead(i) ==
  /\ calls[i].pc = "read"
  /\ \E c \in {calls[i]} :
     \E r \in {readFile(dirs, files, Target(c))} :
     \E after \in {IF r.status # "ok" THEN Settle(c, r.status, <<>>)
                   ELSE IF c.op = "retrieve" THEN Settle(c, "ok", decode(r.value))
                   ELSE [c EXCEPT !.buf = r.value, !.pc = "write"]} :
       calls' = [calls EXCEPT ![i] = after]
  /\ UNCHANGED <<dirs, files, phase, persist, last, hist, nops, suite, proc>>

\* (mutant) the write filters the content the file has now
DoWrite_Rereads(i) ==
  /\ calls[i].pc = "write"
  /\ LET c == calls[i]
         now == readFile(dirs, files, Target(c))
         r == writeFile(dirs, files, Target(c), removeContent(now.value, c.memoryContent))
     IN /\ dirs' = r.d /\ files' = r.f
        /\ calls' = [calls EXCEPT ![i] = Settle(c, r.status, <<>>)]
  /\ UNCHANGED <<phase, persist, last, hist, nops, suite, proc>>

\* removeSpecificMemory: await fs.promises.writeFile(filePath, filteredMemories.join(...))
DoWrite(i) ==
  /\ calls[i].pc = "write"
  /\ LET c == calls[i]
         r == writeFile(dirs, files, Target(c), removeContent(c.buf, c.memoryContent))
     IN /\ dirs' = r.d /\ files' = r.f
        /\ calls' = [calls EXCEPT ![i] = Settle(c, r.status, <<>>)]
  /\ UNCHANGED <<phase, persist, last, hist, nops, suite, proc>>

\* (mutant) clearMemory tries again until its unlink succeeds
DoUnlink_Retries(i) ==
  /\ calls[i].pc = "unlink"
  /\ LET c == calls[i]
         r == unlink(dirs, files, Target(c))
     IN /\ dirs' = r.d /\ files' = r.f
        /\ calls' = [calls EXCEPT ![i] = IF r.status = "ok" THEN Settle(c, r.status, <<>>) ELSE c]
  /\ UNCHANGED <<phase, persist, last, hist, nops, suite, proc>>

\* clearMemory: await fs.promises.unlink(filePath)
DoUnlink(i) ==
  /\ calls[i].pc = "unlink"
  /\ LET c == calls[i]
         r == unlink(dirs, files, Target(c))
     IN /\ dirs' = r.d /\ files' = r.f
        /\ calls' = [calls EXCEPT ![i] = Settle(c, r.status, <<>>)]
  /\ UNCHANGED <<phase, persist, last, hist, nops, suite, proc>>

\* clearAllGlobalOrLocalMemories: await fs.promises.rm(baseDir, ...)
DoRm(i) ==
  /\ calls[i].pc = "rm"
  /\ LET c == calls[i]
         r == rm(dirs, files, Target(c))
     IN /\ dirs' = r.d /\ files' = r.f
        /\ calls' = [calls EXCEPT ![i] =
                       IF r.status # "ok" THEN Settle(c, r.status, <<>>)
                       ELSE [c EXCEPT !.pc = "mkdir"]]
  /\ UNCHANGED <<phase, persist, last, hist, nops, suite, proc>>

\* clearAllGlobalOrLocalMemories: await fs.promises.mkdir(baseDir, ...)
DoMkdir(i) ==
  /\ calls[i].pc = "mkdir"
  /\ LET c == calls[i]
         r == mkdir(dirs, files, Target(c))
     IN /\ dirs' = r.d /\ files' = r.f
        /\ calls' = [calls EXCEPT ![i] = Settle(c, r.status, <<>>)]
  /\ UNCHANGED <<phase, persist, last, hist, nops, suite, proc>>

\* retrieveAll: const files = await fs.promises.readdir(baseDir)
DoReaddir(i) ==
  /\ calls[i].pc = "readdir"
  /\ LET c == calls[i]
         r == readdir(dirs, files, Target(c))
     IN IF r.status # "ok"
        THEN calls' = [calls EXCEPT ![i] = Settle(c, r.status, <<>>)]
        ELSE \E q \in Orders({n \in r.value : EndsWith(n, TXT)}) :
               calls' = [calls EXCEPT ![i] =
                           IF Len(q) = 0 THEN Settle(c, "ok", <<>>)
                           ELSE [c EXCEPT !.todo = q, !.pc = "fileExists"]]
  /\ UNCHANGED <<dirs, files, phase, persist, last, hist, nops, suite, proc>>

\* retrieveAll's loop: the existsSync of this.retrieve(category, isGlobal)
FileExists(i) ==
  /\ calls[i].pc = "fileExists"
  /\ LET c == calls[i]
         filePath == getMemoryFilePath(stripTxt(Head(c.todo)), c.isGlobal)
     IN calls' = [calls EXCEPT ![i] =
                    IF existsSync(dirs, files, filePath) THEN [c EXCEPT !.pc = "fileRead"]
                    ELSE NextFile(c, <<>>)]
  /\ UNCHANGED <<dirs, files, phase, persist, last, hist, nops, suite, proc>>

\* retrieveAll's loop: the readFile of this.retrieve(category, isGlobal)
FileRead(i) ==
  /\ calls[i].pc = "fileRead"
  /\ \E c \in {calls[i]} :
     \E r \in {readFile(dirs, files, getMemoryFilePath(stripTxt(Head(c.todo)), c.isGlobal))} :
     \E after \in {IF r.status # "ok" THEN Settle(c, r.status, <<>>)
                   ELSE NextFile(c, Flatten(decode(r.value)))} :
       calls' = [calls EXCEPT ![i] = after]
  /\ UNCHANGED <<dirs, files, phase, persist, last, hist, nops, suite, proc>>

NextConc ==
  \/ \E c \in Categories, b \in Bodies, t \in TagLists, g \in Areas :
       Invoke("remember", c, b, t, <<>>, g)
  \/ \E c \in Categories, g \in Areas : Invoke("retrieve", c, <<>>, <<>>, <<>>, g)
  \/ \E g \in Areas : Invoke("retrieveAll", <<>>, <<>>, <<>>, <<>>, g)
  \/ \E c \in Categories, m \in Needles, g \in Areas :
       Invoke("removeSpecificMemory", c, <<>>, <<>>, m, g)
  \/ \E c \in Categories, g \in Areas : Invoke("clearMemory", c, <<>>, <<>>, <<>>, g)
  \/ \E g \in Areas : Invoke("clearAllGlobalOrLocalMemories", <<>>, <<>>, <<>>, <<>>, g)
  \/ \E i \in 1..Len(calls) : CheckExists(i)
  \/ \E i \in 1..Len(calls) : DoAppend(i)
  \/ \E i \in 1..Len(calls) : DoRead(i)
  \/ \E i \in 1..Len(calls) : DoWrite(i)
  \/ \E i \in 1..Len(calls) : DoUnlink(i)
  \/ \E i \in 1..Len(calls) : DoRm(i)
  \/ \E i \in 1..Len(calls) : DoMkdir(i)
  \/ \E i \in 1..Len(calls) : DoReaddir(i)
  \/ \E i \in 1..Len(calls) : FileExists(i)
  \/ \E i \in 1..Len(calls) : FileRead(i)

SpecConc == InitConc /\ [][NextConc]_vars

\* the next filesystem call of the i-th call in flight returns
Step(i) ==
  /\ i <= Len(calls)
  /\ \/ CheckExists(i) \/ DoAppend(i) \/ DoRead(i) \/ DoWrite(i) \/ DoUnlink(i)
     \/ DoRm(i) \/ DoMkdir(i) \/ DoReaddir(i) \/ FileExists(i) \/ FileRead(i)

\* every filesystem call returns, and node runs the continuation of every
\* settled promise
SpecConcFair == SpecConc /\ \A i \in 1..MaxCalls : WF_vars(Step(i))

----------------------------------------------------------------------------
(* The tools of index.ts.  A tool call is checked against the tool's       *)
(* parameter schema; the handler runs only when the arguments pass, calls  *)
(* one store method and turns its outcome into the tool result.  In these  *)
(* runs calls holds the record of the last tool call and last the record   *)
(* of the store call it made (NoCall when it made none).                   *)

Star == <<"*">>

Empty == <<>>

ToolCategories == {A, Star, Empty}

ToolData == {A, Empty}

ToolTags == {<<>>, <<A>>}

ToolNeedles == {A, Empty}

\* (mutant) the schema accepts the empty string
MinOne_AcceptsEmpty(s) == Len(s) >= 0

\* z.string().min(1)
MinOne(s) == Len(s) >= 1

\* the result object of a handler; json carries the mapping of
\* retrieve_memories, whose text is JSON.stringify of it
ToolResult(isError, text, json) == [isError |-> isError, text |-> text, json |-> json]

\* (mutant) the catch branch logs the failure and throws it again
ErrorResult_Rethrows(status) == ToolResult(FALSE, <<"thrown: ", status>>, <<>>)

\* the catch branch: text `Error: ${error.message}`, isError: true
ErrorResult(status) == ToolResult(TRUE, <<"Error: ", status>>, <<>>)

\* what a handler did: the store method it called, with which arguments,
\* the outcome r of that call and the tool result
Handled(op, category, isGlobal, data, tags, memoryContent, r, okText) ==
  [op |-> op, category |-> category, isGlobal |-> isGlobal, data |-> data, tags |-> tags,
   memoryContent |-> memoryContent, r |-> r,
   result |-> IF r.status # "ok" THEN ErrorResult(r.status)
              ELSE IF op \in {"retrieve", "retrieveAll"} THEN ToolResult(FALSE, <<"json">>, r.value)
              ELSE ToolResult(FALSE, okText, <<>>)]

\* handler of remember_memory
remember_memory(d, f, category, data, tags, is_global) ==
  Handled("remember", category, is_global, data, tags, <<>>,
          remember(d, f, category, data, tags, is_global),
          <<"Stored memory in category: ">> \o category)

\* (mutant) the handler does not treat '*' apart
retrieve_memories_NoStar(d, f, category, is_global) ==
  Handled("retrieve", category, is_global, <<>>, <<>>, <<>>,
          retrieve(d, f, category, is_global), <<>>)

\* handler of retrieve_memories
retrieve_memories(d, f, category, is_global) ==
  IF category = Star
  THEN Handled("retrieveAll", <<>>, is_global, <<>>, <<>>, <<>>,
               retrieveAll(d, f, is_global), <<>>)
  ELSE Handled("retrieve", category, is_global, <<>>, <<>>, <<>>,
               retrieve(d, f, category, is_global), <<>>)

\* handler of remove_memory_category
remove_memory_category(d, f, category, is_global) ==
  IF category = Star
  THEN Handled("clearAllGlobalOrLocalMemories", <<>>, is_global, <<>>, <<>>, <<>>,
               clearAllGlobalOrLocalMemories(d, f, is_global),
               <<"Cleared all ", IF is_global THEN "global" ELSE "local", " memory categories">>)
  ELSE Handled("clearMemory", category, is_global, <<>>, <<>>, <<>>,
               clearMemory(d, f, category, is_global),
               <<"Cleared memories in category: ">> \o category)

\* handler of remove_specific_memory
remove_specific_memory(d, f, category, memory_content, is_global) ==
  Handled("removeSpecificMemory", category, is_global, <<>>, <<>>, memory_content,
          removeSpecificMemory(d, f, category, memory_content, is_global),
          <<"Removed specific memory from category: ">> \o category)

\* the record of a tool call (tags after the schema's default)
ToolCall(tool, category, data, tags, memory_content, is_global, accepted, result) ==
  [tool |-> tool, category |-> category, data |-> data, tags |-> tags,
   memory_content |-> memory_content, is_global |-> is_global,
   accepted |-> accepted, result |-> result]

\* the arguments fail the schema: the handler is not run
Rejected(tool, category, data, tags, memory_content, is_global) ==
  /\ calls' = <<ToolCall(tool, category, data, tags, memory_content, is_global, FALSE,
                         ToolResult(TRUE, <<"invalid arguments">>, <<>>))>>
  /\ last' = NoCall
  /\ UNCHANGED <<dirs, files>>

\* the handler ran as h says
Served(tool, category, data, tags, memory_content, is_global, h) ==
  /\ calls' = <<ToolCall(tool, category, data, tags, memory_content, is_global, TRUE, h.result)>>
  /\ last' = Done(h.op, h.category, h.isGlobal, h.data, h.tags, h.memoryContent,
                  IF h.op \in {"retrieveAll", "clearAllGlobalOrLocalMemories"}
                  THEN baseDir(h.isGlobal) ELSE getMemoryFilePath(h.category, h.isGlobal),
                  h.r)
  /\ dirs' = h.r.d /\ files' = h.r.f

\* the server starts on a disk without the storage directories, or on one
\* where both exist and the global one holds a directory named a.txt
InitTools ==
  /\ suite = "tools"
  /\ persist \in BOOLEAN
  /\ \E odd \in BOOLEAN :
       dirs = {<<>>, <<<<"t">>>>}
              \cup (IF odd THEN {globalStorageLocation, localStorageLocation,
                                   getMemoryFilePath(A, TRUE)}
                         ELSE {})
  /\ files = NoFiles
  /\ phase = "boot"
  /\ proc = Configured(persist)
  /\ last = NoCall
  /\ hist = NoFiles
  /\ nops = 0
  /\ calls = <<>>

\* tags is optional and defaults to []: given says whether it was passed
RememberMemory(category, data, tags, given, is_global) ==
  /\ phase = "run" /\ nops < MaxOps
  /\ IF MinOne(category) /\ MinOne(data)
     THEN Served("remember_memory", category, data, IF given THEN tags ELSE <<>>, <<>>,
                 is_global,
                 remember_memory(dirs, files, category, data,
                                 IF given THEN tags ELSE <<>>, is_global))
     ELSE Rejected("remember_memory", category, data, IF given THEN tags ELSE <<>>, <<>>,
                   is_global)
  /\ nops' = nops + 1
  /\ UNCHANGED <<phase, persist, hist, suite, proc>>

RetrieveMemories(category, is_global) ==
  /\ phase = "run"
  /\ IF MinOne(category)
     THEN Served("retrieve_memories", category, <<>>, <<>>, <<>>, is_global,
                 retrieve_memories(dirs, files, category, is_global))
     ELSE Rejected("retrieve_memories", category, <<>>, <<>>, <<>>, is_global)
  /\ UNCHANGED <<phase, persist, hist, nops, suite, proc>>

RemoveMemoryCategory(category, is_global) ==
  /\ phase = "run" /\ nops < MaxOps
  /\ IF MinOne(category)
     THEN Served("remove_memory_category", category, <<>>, <<>>, <<>>, is_global,
                 remove_memory_category(dirs, files, category, is_global))
     ELSE Rejected("remove_memory_category", category, <<>>, <<>>, <<>>, is_global)
  /\ nops' = nops + 1
  /\ UNCHANGED <<phase, persist, hist, suite, proc>>

RemoveSpecificMemoryTool(category, memory_content, is_global) ==
  /\ phase = "run" /\ nops < MaxOps
  /\ IF MinOne(category) /\ MinOne(memory_content)
     THEN Served("remove_specific_memory", category, <<>>, <<>>, memory_content, is_global,
                 remove_specific_memory(dirs, files, category, memory_content, is_global))
     ELSE Rejected("remove_specific_memory", category, <<>>, <<>>, memory_content, is_global)
  /\ nops' = nops + 1
  /\ UNCHANGED <<phase, persist, hist, suite, proc>>

NextTools ==
  \/ InitializeStorage
  \/ \E c \in ToolCategories, b \in ToolData, t \in ToolTags, given \in BOOLEAN, g \in BOOLEAN :
       RememberMemory(c, b, t, given, g)
  \/ \E c \in ToolCategories, g \in BOOLEAN : RetrieveMemories(c, g)
  \/ \E c \in ToolCategories, g \in BOOLEAN : RemoveMemoryCategory(c, g)
  \/ \E c \in ToolCategories, m \in ToolNeedles, g \in BOOLEAN :
       RemoveSpecificMemoryTool(c, m, g)

SpecTools == InitTools /\ [][NextTools]_vars

----------------------------------------------------------------------------
(* The start of the process: getMemoryConfig() and initializeStorage() as  *)
(* index.ts calls them at module level, and isUnderHome(dirPath), for the  *)
(* home directories, working directories, arguments and disks below.       *)

HomeUser == <<"/", "h", "/", "u">>

Homes == {HomeUser, <<"/">>}

WorkingDirs == {HomeUser \o <<"/", "w">>, <<"/", "x">>}

CustomGlobal == <<"/", "c", "/", "g">>

CustomLocal == <<"/", "c", "/", "l">>

GlobalOptions == {NotGiven, Opt(TRUE, <<>>), Opt(TRUE, CustomGlobal), Opt(TRUE, <<"g">>)}

LocalOptions == {NotGiven, Opt(TRUE, <<>>), Opt(TRUE, CustomLocal)}

Argvs ==
  {[g |-> g, l |-> l, noPersistence |-> n] :
     g \in GlobalOptions, l \in LocalOptions, n \in BOOLEAN}

\* the texts isUnderHome is asked about: home, below home, above home,
\* beside home, elsewhere, and relative to the working directory
DirPaths ==
  {HomeUser, HomeUser \o <<"/">>, HomeUser \o <<"/", "p">>,
   HomeUser \o <<"/", ".", ".", "p">>, HomeUser \o <<"/", "p", "/", ".", ".", "p">>,
   HomeUser \o <<"/", ".", ".">>, <<"/", "h", "/", "o">>, HomeUser \o <<"u">>,
   <<"/", "x">>, <<"/">>, <<>>, <<".">>, <<".", ".">>, <<".", ".", "/", "d">>,
   <<".", ".", "/", ".", ".", "/", ".", ".">>, <<".", ".", "p">>}

\* the disks a process starts on: an empty one, one where the custom global
\* directory exists, and one where /c is a regular file
Disks ==
  {[d |-> {<<>>}, f |-> NoFiles],
   [d |-> Ancestors(resolve(<<"/">>, CustomGlobal)), f |-> NoFiles],
   [d |-> {<<>>}, f |-> Put(NoFiles, << <<"c">> >>, <<>>)]}

InitConfig ==
  /\ suite = "config"
  /\ \E home \in Homes, cwd \in WorkingDirs, argv \in Argvs, dirPath \in DirPaths :
       proc = Process(home, cwd, argv, dirPath)
  /\ \E disk \in Disks : dirs = disk.d /\ files = disk.f
  /\ phase = "args"
  \* commander's default of the negatable option
  /\ persist = TRUE
  /\ last = NoCall
  /\ hist = NoFiles
  /\ nops = 0
  /\ calls = <<>>

\* index.ts: const memoryConfig = getMemoryConfig()
GetMemoryConfig ==
  /\ phase = "args"
  /\ LET config == getMemoryConfig(proc.home, proc.cwd, proc.argv)
     IN /\ proc' = [proc EXCEPT !.config = config]
        /\ persist' = config.enablePersistence
  /\ phase' = "boot"
  /\ UNCHANGED <<dirs, files, last, hist, nops, calls, suite>>

\* isUnderHome(dirPath)
IsUnderHome ==
  /\ proc' = [proc EXCEPT !.underHome = {isUnderHome(proc.home, proc.cwd, proc.dirPath)}]
  /\ UNCHANGED <<dirs, files, phase, persist, last, hist, nops, calls, suite>>

NextConfig ==
  \/ GetMemoryConfig
  \/ InitializeStorage
  \/ IsUnderHome

SpecConfig == InitConfig /\ [][NextConfig]_vars

----------------------------------------------------------------------------
(* Vocabulary of the properties *)

Range(q) == {q[i] : i \in 1..Len(q)}

\* text holding a line break: the line terminator the code writes, or a
\* newline character
HasNewline(s) == Includes(s, LT) \/ "\n" \in Range(s)

\* text holding a blank-line sequence: two line breaks in a row
HasBlankLines(s) == Includes(s, SEP) \/ Includes(s, <<"\n", "\n">>)

\* text that is one line and not blank
PlainLine(s) == ~Includes(s, LT) /\ Trim(s) # <<>>

\* a body that is one non-blank line and does not start like a tag line
PlainBody(s) == PlainLine(s) /\ ~StartsWith(s, <<"#">>)

\* a tag that is a non-empty word: no white space, no backslash
PlainTag(t) == Len(t) > 0 /\ \A i \in 1..Len(t) : t[i] \notin WhiteSpace /\ t[i] # BS

PlainTags(tags) == \A i \in 1..Len(tags) : PlainTag(tags[i])

\* a category name that is a single path segment
PlainCategory(c) == Len(c) > 0 /\ "/" \notin Range(c) /\ c # <<".">> /\ c # <<".", ".">>

\* the content ends where a block ends: its split on the record separator
\* ends with the empty fragment
AtBlockBoundary(content) ==
  LET parts == Split(content, SEP) IN parts[Len(parts)] = <<>>

\* the tag key the specification assigns to a tag list
KeyOf(tags) == IF Len(tags) = 0 THEN untaggedKey ELSE Join(tags, <<" ">>)

\* the bodies of the remember calls in frags, in call order
RECURSIVE BodiesOf(_)
BodiesOf(frags) ==
  IF Len(frags) = 0 THEN <<>> ELSE <<Head(frags).data>> \o BodiesOf(Tail(frags))

\* the bodies of the remember calls in frags made with the tag list tags
RECURSIVE BodiesUnder(_, _)
BodiesUnder(frags, tags) ==
  IF Len(frags) = 0 THEN <<>>
  ELSE (IF Head(frags).tags = tags THEN <<Head(frags).data>> ELSE <<>>)
       \o BodiesUnder(Tail(frags), tags)

PlainFrags(frags) ==
  \A i \in 1..Len(frags) : PlainTags(frags[i].tags) /\ PlainBody(frags[i].data)

\* all entries of a mapping, group after group
RECURSIVE AllEntries(_)
AllEntries(m) == IF Len(m) = 0 THEN <<>> ELSE Head(m)[2] \o AllEntries(Tail(m))

\* what retrieve(category, isGlobal) returns in the current state
Retrieved(category, isGlobal) == retrieve(dirs, files, category, isGlobal)

----------------------------------------------------------------------------
(* C1 *)

\* C1 as claimed: after remember(cat, B, T, area) with T non-empty, no tag
\* holding '#' or a newline, B non-empty without a blank-line sequence,
\* retrieve(cat, area) has the key join(T, " ") and B in its list.  (Stated
\* here for tags that are plain words and bodies that are not all white
\* space only, which the claim includes.)
C1_RoundTripAsClaimed ==
  ( /\ last.op = "remember" /\ last.status = "ok"
    /\ Len(last.tags) > 0 /\ PlainTags(last.tags)
    /\ \A i \in 1..Len(last.tags) : "#" \notin Range(last.tags[i]) /\ ~HasNewline(last.tags[i])
    /\ Len(Trim(last.data)) > 0 /\ ~HasBlankLines(last.data) )
  => LET r == Retrieved(last.category, last.isGlobal)
     IN /\ r.status = "ok"
        /\ ObjHas(r.value, Join(last.tags, <<" ">>))
        /\ last.data \in Range(ObjGet(r.value, Join(last.tags, <<" ">>)))

\* C1 (amended): when the file was absent or ended at a block boundary, the
\* tags of the non-empty list T are non-empty words without white space or
\* backslash, and B is one non-blank line, then after remember(cat, B, T,
\* area) retrieve(cat, area) has the key join(T, " ") and B in its list.
C1_RoundTrip ==
  ( /\ last.op = "remember" /\ last.status = "ok"
    /\ Len(last.tags) > 0 /\ PlainTags(last.tags)
    /\ PlainLine(last.data)
    /\ (last.existed => AtBlockBoundary(last.pre)) )
  => LET r == Retrieved(last.category, last.isGlobal)
     IN /\ r.status = "ok"
        /\ ObjHas(r.value, Join(last.tags, <<" ">>))
        /\ last.data \in Range(ObjGet(r.value, Join(last.tags, <<" ">>)))

\* a two-tag remember into a file that already held a block, read back
C1_Witness ==
  /\ last.op = "remember" /\ last.status = "ok"
  /\ last.tags = <<A, B>> /\ last.data = B
  /\ last.existed /\ Len(last.pre) > 0 /\ AtBlockBoundary(last.pre)
  /\ ObjGet(Retrieved(last.category, last.isGlobal).value, <<"a", " ", "b">>) = <<B>>

----------------------------------------------------------------------------
(* C2 *)

\* C2 as claimed: in a file that only remember calls have written (plain
\* tags, one-line non-blank bodies), retrieve lists under the key of every
\* tag list used all the bodies remembered under that tag list, in append
\* order.
C2_MergedOnRead ==
  \A c \in Categories, g \in Areas :
    LET p == getMemoryFilePath(c, g)
    IN (p \in DOMAIN hist /\ hist[p].pure /\ PlainFrags(hist[p].frags))
       => \A i \in 1..Len(hist[p].frags) :
            LET tags == hist[p].frags[i].tags
                m == Retrieved(c, g).value
            IN /\ ObjHas(m, KeyOf(tags))
               /\ ObjGet(m, KeyOf(tags)) = BodiesUnder(hist[p].frags, tags)

----------------------------------------------------------------------------
(* C3 *)

\* the names of the *.txt files directly under the root of area g
TxtNamesUnder(g) ==
  {Name(p) : p \in {q \in DOMAIN files : Parent(q) = baseDir(g) /\ EndsWith(Name(q), TXT)}}

\* the name n, which holds ".txt", without its first ".txt"
WithoutFirstTxt(n) ==
  LET at(k) == k + Len(TXT) - 1 <= Len(n) /\ SubSeq(n, k, k + Len(TXT) - 1) = TXT
      i == CHOOSE k \in 1..Len(n) : at(k) /\ \A j \in 1..(k - 1) : ~at(j)
  IN SubSeq(n, 1, i - 1) \o SubSeq(n, i + Len(TXT), Len(n))

----------------------------------------------------------------------------
(* C4 *)

\* the file content two remember calls leave in a new file
TwoEntries(t1, b1, t2, b2) == rememberContent(b1, t1) \o rememberContent(b2, t2)

BlockText(tags, body) ==
  LET c == rememberContent(body, tags) IN SubSeq(c, 1, Len(c) - Len(SEP))

----------------------------------------------------------------------------
(* C5 *)

\* C5 as claimed: after remember(cat, B, [], area) with B non-empty,
\* retrieve(cat, area) lists B under the key "untagged".  (Stated here for
\* bodies that are not all white space only, which the claim includes.)
C5_UntaggedAsClaimed ==
  (last.op = "remember" /\ last.status = "ok" /\ Len(last.tags) = 0 /\ Len(Trim(last.data)) > 0)
  => LET r == Retrieved(last.category, last.isGlobal)
     IN /\ r.status = "ok"
        /\ ObjHas(r.value, untaggedKey)
        /\ last.data \in Range(ObjGet(r.value, untaggedKey))

\* C5 (amended): when the file was absent or ended at a block boundary and
\* B is one non-blank line that does not start with '#', then after
\* remember(cat, B, [], area) retrieve(cat, area) lists B under the key
\* "untagged".
C5_Untagged ==
  ( /\ last.op = "remember" /\ last.status = "ok" /\ Len(last.tags) = 0
    /\ PlainBody(last.data)
    /\ (last.existed => AtBlockBoundary(last.pre)) )
  => LET r == Retrieved(last.category, last.isGlobal)
     IN /\ r.status = "ok"
        /\ ObjHas(r.value, untaggedKey)
        /\ last.data \in Range(ObjGet(r.value, untaggedKey))

\* an untagged remember after a tagged block, read back under "untagged"
C5_Witness ==
  /\ last.op = "remember" /\ last.status = "ok" /\ Len(last.tags) = 0
  /\ last.data = A
  /\ last.existed /\ StartsWith(last.pre, <<"#">>) /\ AtBlockBoundary(last.pre)
  /\ ObjGet(Retrieved(last.category, last.isGlobal).value, untaggedKey) = <<A>>

----------------------------------------------------------------------------
(* C6 *)

\* C6 as claimed: every category file that exists decodes to at least one
\* entry.  (Stated here for files into which only plain tags and plain
\* bodies were remembered, which the claim includes.)
C6_NoEmptyFileAsClaimed ==
  \A p \in DOMAIN files :
    (p \in DOMAIN hist /\ PlainFrags(hist[p].frags))
    => Len(AllEntries(decode(files[p]))) > 0

\* C6 (amended): every category file that exists and that only remember
\* calls with plain tags and plain bodies have written (no
\* removeSpecificMemory has rewritten it since it was created) decodes to
\* at least one entry; clearMemory and clearAllGlobalOrLocalMemories delete
\* files and leave none empty.
C6_NoEmptyFile ==
  \A p \in DOMAIN files :
    (p \in DOMAIN hist /\ hist[p].pure /\ PlainFrags(hist[p].frags))
    => Len(AllEntries(decode(files[p]))) > 0

\* after a clear of one category another category file is still there,
\* written by remember only
C6_Witness ==
  /\ last.op \in {"clearMemory", "clearAllGlobalOrLocalMemories"}
  /\ last.touched # {}
  /\ \E p \in DOMAIN files : p \in DOMAIN hist /\ hist[p].pure

----------------------------------------------------------------------------
(* C7 *)

\* the lines of a body
LinesOf(body) == Range(Split(body, LT))

\* both area roots exist
RootsExist == globalStorageLocation \in dirs /\ localStorageLocation \in dirs

\* C7 as claimed: with both roots in place, every entry retrieve(X, area)
\* returns was remembered into that area: it is a line of a body that a
\* remember call with the same area flag appended to the file.
C7_AreaIsolation ==
  \A c \in Categories, g \in Areas :
    LET p == getMemoryFilePath(c, g)
    IN (RootsExist /\ p \in DOMAIN hist /\ hist[p].pure)
       => \A e \in Range(AllEntries(Retrieved(c, g).value)) :
            \E i \in 1..Len(hist[p].frags) :
              /\ hist[p].frags[i].isGlobal = g
              /\ e \in LinesOf(hist[p].frags[i].data)

----------------------------------------------------------------------------
(* C8 *)

\* C8 as claimed: with both roots in place, every path a store operation
\* creates, changes or deletes lies inside the root directory of the area
\* passed to the operation.
C8_Confined ==
  (RootsExist /\ last.op # "none")
  => \A p \in last.touched : Under(p, baseDir(last.isGlobal))

----------------------------------------------------------------------------
(* C9 *)

\* C9: on an absent category file clearMemory and removeSpecificMemory
\* succeed and change nothing, and retrieve returns the empty mapping; on an
\* absent area root retrieveAll returns the empty mapping.
C9_IdempotentAbsence ==
  /\ ( /\ last.op \in {"clearMemory", "removeSpecificMemory"}
       /\ ~last.existed /\ getMemoryFilePath(last.category, last.isGlobal) \notin dirs )
     => (last.status = "ok" /\ last.touched = {})
  /\ ( /\ last.op = "retrieve"
       /\ ~last.existed /\ getMemoryFilePath(last.category, last.isGlobal) \notin dirs )
     => (last.status = "ok" /\ Len(last.value) = 0 /\ last.touched = {})
  /\ (last.op = "retrieveAll" /\ ~existsSync(dirs, files, baseDir(last.isGlobal)))
     => (last.status = "ok" /\ DOMAIN last.value = {} /\ last.touched = {})

\* removeSpecificMemory has run on an absent category file while another
\* category file exists; it succeeded and changed nothing
C9_Witness ==
  /\ last.op = "removeSpecificMemory" /\ last.status = "ok"
  /\ ~last.existed /\ last.touched = {}
  /\ DOMAIN files # {}

----------------------------------------------------------------------------
(* C10 *)

\* the methods for which an absent file or directory is a soft condition
SoftOps == {"retrieve", "retrieveAll", "removeSpecificMemory", "clearMemory"}

\* C10 as claimed: under any interleaving of the calls in flight, no call
\* of retrieve, retrieveAll, removeSpecificMemory or clearMemory ends in an
\* error because the category file or the area directory is absent.
C10_AbsenceIsSoft ==
  \A i \in 1..Len(calls) :
    (calls[i].pc = "done" /\ calls[i].op \in SoftOps) => calls[i].status # "ENOENT"

----------------------------------------------------------------------------
(* C11 *)

\* what retrieveAll(isGlobal) returns in the current state
RetrievedAll(isGlobal) == retrieveAll(dirs, files, isGlobal)

\* C11 as claimed: after clearAllGlobalOrLocalMemories(area), whatever the
\* state before it, retrieveAll(area) returns the empty mapping and the
\* area root directory exists.
C11_FullWipeAsClaimed ==
  (last.op = "clearAllGlobalOrLocalMemories")
  => /\ last.status = "ok"
     /\ RetrievedAll(last.isGlobal).status = "ok"
     /\ DOMAIN RetrievedAll(last.isGlobal).value = {}
     /\ baseDir(last.isGlobal) \in dirs

\* C11 (amended): a clearAllGlobalOrLocalMemories(area) call made while the
\* area root directory exists succeeds, and after it retrieveAll(area)
\* returns the empty mapping and the root directory exists.
C11_FullWipe ==
  [][ ( /\ last'.op = "clearAllGlobalOrLocalMemories" /\ nops' = nops + 1
        /\ baseDir(last'.isGlobal) \in dirs )
      => /\ last'.status = "ok"
         /\ retrieveAll(dirs', files', last'.isGlobal).status = "ok"
         /\ DOMAIN retrieveAll(dirs', files', last'.isGlobal).value = {}
         /\ baseDir(last'.isGlobal) \in dirs' ]_vars

\* a wipe has removed a category file and the root is there, empty
C11_Witness ==
  /\ last.op = "clearAllGlobalOrLocalMemories" /\ last.status = "ok"
  /\ \E p \in last.touched : Parent(p) = baseDir(last.isGlobal)
  /\ baseDir(last.isGlobal) \in dirs
  /\ DOMAIN RetrievedAll(last.isGlobal).value = {}

----------------------------------------------------------------------------
(* C12 *)

\* C12 as claimed: after clearMemory(category, area) the category file does
\* not exist, retrieve(category, area) returns the empty mapping and
\* retrieveAll(area) has no key for the category.
C12_CategoryCleared ==
  (last.op = "clearMemory" /\ last.status = "ok")
  => /\ getMemoryFilePath(last.category, last.isGlobal) \notin DOMAIN files
     /\ Retrieved(last.category, last.isGlobal).status = "ok"
     /\ Len(Retrieved(last.category, last.isGlobal).value) = 0
     /\ RetrievedAll(last.isGlobal).status = "ok"
     /\ last.category \notin DOMAIN RetrievedAll(last.isGlobal).value

----------------------------------------------------------------------------
(* C13 *)

\* the newline character
NL == <<"\n">>

\* the fragment the file format assigns to (tags, body): "# " and the tags
\* joined by single spaces and a newline (none when tags is empty), the
\* body, two newlines
Fragment(tags, body) ==
  (IF Len(tags) > 0 THEN <<"#", " ">> \o Join(tags, <<" ">>) \o NL ELSE <<>>)
  \o body \o NL \o NL

\* C13 as claimed: a remember that succeeds leaves in the category file the
\* old content (nothing when the file was absent) followed by exactly the
\* fragment of its tags and body, whose lines end with newlines.
C13_AppendsFragment ==
  (last.op = "remember" /\ last.status = "ok")
  => LET p == getMemoryFilePath(last.category, last.isGlobal)
     IN /\ p \in DOMAIN files
        /\ files[p] = last.pre \o Fragment(last.tags, last.data)

----------------------------------------------------------------------------
(* C14 *)

\* the store call recorded in last is the call of method op with the
\* arguments of the tool call t that the method takes
StoreCallIs(op, t) ==
  /\ last.op = op
  /\ last.isGlobal = t.is_global
  /\ op \in {"remember", "retrieve", "clearMemory", "removeSpecificMemory"}
     => last.category = t.category
  /\ op = "remember" => (last.data = t.data /\ last.tags = t.tags)
  /\ op = "removeSpecificMemory" => last.memoryContent = t.memory_content

\* C14: a tool call whose handler runs makes the store call the dispatch
\* rule names: retrieve_memories calls retrieveAll exactly when category is
\* "*" and retrieve otherwise, remove_memory_category calls
\* clearAllGlobalOrLocalMemories exactly when category is "*" and
\* clearMemory otherwise, remember_memory and remove_specific_memory call
\* remember and removeSpecificMemory, each with the arguments given.
C14_Dispatch ==
  (Len(calls) = 1 /\ calls[1].accepted)
  => LET t == calls[1]
     IN /\ t.tool = "retrieve_memories"
           => StoreCallIs(IF t.category = Star THEN "retrieveAll" ELSE "retrieve", t)
        /\ t.tool = "remove_memory_category"
           => StoreCallIs(IF t.category = Star THEN "clearAllGlobalOrLocalMemories"
                          ELSE "clearMemory", t)
        /\ t.tool = "remember_memory" => StoreCallIs("remember", t)
        /\ t.tool = "remove_specific_memory" => StoreCallIs("removeSpecificMemory", t)

\* retrieve_memories("*") has returned the memories of a category through
\* retrieveAll
C14_Witness ==
  /\ Len(calls) = 1 /\ calls[1].accepted
  /\ calls[1].tool = "retrieve_memories" /\ calls[1].category = Star
  /\ last.op = "retrieveAll" /\ last.status = "ok"
  /\ A \in DOMAIN last.value

----------------------------------------------------------------------------
(* C15 *)

\* C15: when the store call of a tool call fails, the tool call returns a
\* result with isError = true and the text "Error: " followed by the
\* message of the failure, and the server goes on serving tool calls.
C15_FailureCaught ==
  (Len(calls) = 1 /\ calls[1].accepted /\ last.status # "ok")
  => /\ calls[1].result.isError = TRUE
     /\ calls[1].result.text = <<"Error: ", last.status>>
     /\ ENABLED (\E c \in ToolCategories, g \in BOOLEAN : RetrieveMemories(c, g))

\* remove_specific_memory has failed on a category path that is a
\* directory and returned the error result
C15_Witness ==
  /\ Len(calls) = 1 /\ calls[1].accepted
  /\ calls[1].tool = "remove_specific_memory"
  /\ last.op = "removeSpecificMemory" /\ last.status = "EISDIR"
  /\ calls[1].result.isError = TRUE

----------------------------------------------------------------------------
\* C16: when persistence is disabled the server is in-memory only: no startup
\* step and no tool call creates, modifies or deletes a file or a directory
\* under the storage locations
C16_InMemoryOnly ==
  [][(persist = FALSE) => (dirs' = dirs /\ files' = files)]_vars

----------------------------------------------------------------------------
\* the two locations of the configuration as the file system sees them
GlobalDir == OnDisk(proc.config, proc.cwd).globalStorageLocation

LocalDir == OnDisk(proc.config, proc.cwd).localStorageLocation

\* the step in which initializeStorage runs
InitializeStep == phase = "boot" /\ phase' # "boot"

\* with persistence disabled initializeStorage makes no fs call and changes
\* nothing
DisabledIsInert ==
  /\ proc'.fsCalls = <<>>
  /\ dirs' = dirs /\ files' = files

\* no regular file lies on the way to p: mkdir can create p
Creatable(p) == \A q \in Ancestors(p) : q \notin DOMAIN files

\* (as claimed) initializeStorage(config) creates each of the two storage
\* directories that does not exist (and can be created) when enablePersistence
\* is true, and makes no existence check and no creation when it is false
C17_InitializeAsClaimed ==
  [][InitializeStep =>
       IF persist
       THEN \A p \in {GlobalDir, LocalDir} :
              (~existsSync(dirs, files, p) /\ Creatable(p)) => p \in dirs'
       ELSE DisabledIsInert]_vars

\* C17: initializeStorage(config) with enablePersistence true checks the
\* global and then the local storage directory and creates (recursively) each
\* one that does not exist, unless a creation fails: then the error is thrown
\* and what comes after it is not done; with enablePersistence false it makes
\* no existence check and no creation at all
C17_Initialize ==
  [][InitializeStep =>
       IF persist
       THEN LET blocked(p) == ~Creatable(p)
                gMissing == ~existsSync(dirs, files, GlobalDir)
                afterG == IF gMissing THEN dirs \cup Ancestors(GlobalDir) ELSE dirs
                lMissing == ~existsSync(afterG, files, LocalDir)
                afterL == IF lMissing THEN afterG \cup Ancestors(LocalDir) ELSE afterG
            IN /\ files' = files
               /\ IF gMissing /\ blocked(GlobalDir)
                  THEN proc'.status # "ok" /\ phase' = "down" /\ dirs' = dirs
                  ELSE IF lMissing /\ blocked(LocalDir)
                  THEN proc'.status # "ok" /\ phase' = "down" /\ dirs' = afterG
                  ELSE proc'.status = "ok" /\ phase' = "run" /\ dirs' = afterL
       ELSE DisabledIsInert]_vars

\* initializeStorage has created both directories, the ancestors of the
\* global one included
C17_Witness ==
  /\ suite = "config" /\ phase = "run" /\ persist
  /\ proc.fsCalls = << <<"existsSync", GlobalDir>>, <<"mkdirSync", GlobalDir>>,
                       <<"existsSync", LocalDir>>, <<"mkdirSync", LocalDir>> >>
  /\ Len(GlobalDir) > 1
  /\ Ancestors(GlobalDir) \cup Ancestors(LocalDir) \subseteq dirs

----------------------------------------------------------------------------
\* C18: isUnderHome(p) is true exactly when p, resolved against the current
\* working directory, is the home directory itself or a descendant of it,
\* and false for every other path
C18_UnderHome ==
  (proc.underHome # {})
  => proc.underHome = {Under(resolve(proc.cwd, proc.dirPath), resolve(proc.cwd, proc.home))}

----------------------------------------------------------------------------
\* the default locations: <home>/.config/goose/memory and <cwd>/.goose/memory
DefaultGlobal == PathText(resolve(proc.cwd, proc.home) \o GooseGlobal)

DefaultLocal == PathText(resolve(proc.cwd, proc.cwd) \o GooseLocal)

\* enablePersistence is false exactly when --no-persistence was given
PersistenceFromFlag == proc.config.enablePersistence = ~proc.argv.noPersistence

\* (as claimed) each location is the command-line value when given and the
\* default otherwise
C19_ConfigAsClaimed ==
  (suite = "config" /\ phase # "args")
  => /\ proc.config.globalStorageLocation =
          IF proc.argv.g.given THEN proc.argv.g.value ELSE DefaultGlobal
     /\ proc.config.localStorageLocation =
          IF proc.argv.l.given THEN proc.argv.l.value ELSE DefaultLocal
     /\ PersistenceFromFlag

\* C19: getMemoryConfig returns, for each of the global and local storage
\* locations, the command-line value when given and not the empty string, and
\* otherwise the default (<home>/.config/goose/memory for global,
\* <cwd>/.goose/memory for local), and returns enablePersistence = false
\* exactly when --no-persistence was given
C19_Config ==
  (suite = "config" /\ phase # "args")
  => /\ proc.config.globalStorageLocation =
          IF proc.argv.g.given /\ proc.argv.g.value # <<>>
          THEN proc.argv.g.value ELSE DefaultGlobal
     /\ proc.config.localStorageLocation =
          IF proc.argv.l.given /\ proc.argv.l.value # <<>>
          THEN proc.argv.l.value ELSE DefaultLocal
     /\ PersistenceFromFlag

\* getMemoryConfig has run on  -g /c/g --no-persistence : the global location
\* is the given one, the local one the default, persistence is off
C19_Witness ==
  /\ suite = "config" /\ phase # "args"
  /\ proc.argv = [g |-> Opt(TRUE, CustomGlobal), l |-> NotGiven, noPersistence |-> TRUE]
  /\ proc.config.globalStorageLocation = CustomGlobal
  /\ proc.config.localStorageLocation = DefaultLocal
  /\ proc.config.enablePersistence = FALSE

----------------------------------------------------------------------------
\* the blocks of content that do not contain S, in their order
Survivors(blocks, S) == SelectSeq(blocks, LAMBDA b : ~Includes(b, S))

\* C20: after removeSpecificMemory(cat, S, area) on an existing file the file
\* content is the original content's double-newline-separated blocks (blank
\* fragments included) without the blocks whose raw text contains S, the
\* others verbatim and in their order, rejoined with the double newline
C20_FilterExact ==
  (last.op = "removeSpecificMemory" /\ last.status = "ok" /\ last.existed)
  => LET p == getMemoryFilePath(last.category, last.isGlobal)
     IN /\ p \in DOMAIN files
        /\ files[p] = Join(Survivors(Split(last.pre, NL \o NL), last.memoryContent), NL \o NL)

----------------------------------------------------------------------------
\* the blocks of a file content that are not blank, in file order
Blocks(content) == NonBlank(Split(content, SEP))

\* the key retrieve files the block under
BlockKey(block) ==
  LET firstLine == Split(block, LT)[1]
  IN IF StartsWith(firstLine, <<"#">>) THEN tagKey(firstLine) ELSE untaggedKey

\* the lines of the block that are entries
BlockEntries(block) ==
  LET lines == Split(block, LT)
  IN IF StartsWith(lines[1], <<"#">>) THEN NonBlank(Tail(lines)) ELSE NonBlank(lines)

\* q without the repetitions of its elements: first appearances, in order
RECURSIVE FirstSeen(_)
FirstSeen(q) ==
  IF Len(q) = 0 THEN <<>>
  ELSE LET r == FirstSeen(SubSeq(q, 1, Len(q) - 1))
       IN IF q[Len(q)] \in Range(r) THEN r ELSE Append(r, q[Len(q)])

\* the entries of the blocks filed under key k, in file order
RECURSIVE EntriesUnder(_, _)
EntriesUnder(blocks, k) ==
  IF Len(blocks) = 0 THEN <<>>
  ELSE (IF BlockKey(Head(blocks)) = k THEN BlockEntries(Head(blocks)) ELSE <<>>)
       \o EntriesUnder(Tail(blocks), k)

\* s can be had from t by leaving elements out
RECURSIVE IsSubseq(_, _)
IsSubseq(s, t) ==
  IF Len(s) = 0 THEN TRUE
  ELSE IF Len(t) = 0 THEN FALSE
  ELSE IF Head(s) = Head(t) THEN IsSubseq(Tail(s), Tail(t))
  ELSE IsSubseq(s, Tail(t))

\* C21: for every file content the keys of the mapping retrieve returns are
\* enumerated in the order in which each tag key first appears in the file,
\* the entries under each key are in file order, and an empty or all-blank
\* content yields the empty mapping
C21_KeyOrder ==
  (last.op = "retrieve" /\ last.status = "ok" /\ last.existed)
  => LET blocks == Blocks(last.pre)
     IN /\ ObjKeys(last.value) = FirstSeen([i \in 1..Len(blocks) |-> BlockKey(blocks[i])])
        /\ \A i \in 1..Len(last.value) :
             IsSubseq(last.value[i][2], EntriesUnder(blocks, last.value[i][1]))
        /\ (Len(blocks) = 0 => last.value = <<>>)

----------------------------------------------------------------------------
\* the words of s: s split on its runs of white space
RECURSIVE Words(_)
Words(s) ==
  LET ws == {i \in 1..Len(s) : s[i] \in WhiteSpace}
  IN IF ws = {} THEN <<s>>
     ELSE LET i == CHOOSE k \in ws : \A j \in ws : k <= j
              rest == {k \in (i + 1)..Len(s) : s[k] \notin WhiteSpace}
              n == IF rest = {} THEN Len(s) + 1 ELSE CHOOSE k \in rest : \A j \in rest : k <= j
          IN <<SubSeq(s, 1, i - 1)>> \o Words(SubSeq(s, n, Len(s)))

\* the key the specification derives from a tag line: the line after '#',
\* trimmed, split on runs of white space, rejoined with single spaces
WordsKey(firstLine) == Join(Words(Trim(Tail(firstLine))), <<" ">>)

\* the first line of the block starts with '#'
Tagged(block) == StartsWith(Split(block, LT)[1], <<"#">>)

\* the non-blank lines of the untagged blocks, in file order
RECURSIVE UntaggedLines(_)
UntaggedLines(blocks) ==
  IF Len(blocks) = 0 THEN <<>>
  ELSE (IF Tagged(Head(blocks)) THEN <<>> ELSE NonBlank(Split(Head(blocks), LT)))
       \o UntaggedLines(Tail(blocks))

\* C22: retrieve files a block whose first line starts with '#' under the
\* rest of that line, trimmed, split on runs of white space and rejoined with
\* single spaces; a block whose first line does not start with '#' is filed
\* under "untagged" with every non-blank line as an entry
C22_TagKey ==
  (last.op = "retrieve" /\ last.status = "ok" /\ last.existed)
  => LET blocks == Blocks(last.pre)
         keys == {IF Tagged(blocks[i]) THEN WordsKey(Split(blocks[i], LT)[1]) ELSE untaggedKey :
                    i \in 1..Len(blocks)}
     IN /\ Range(ObjKeys(last.value)) = keys
        /\ ObjHas(last.value, untaggedKey)
             => \/ ObjGet(last.value, untaggedKey) = UntaggedLines(blocks)
                \/ \E i \in 1..Len(blocks) :
                     Tagged(blocks[i]) /\ WordsKey(Split(blocks[i], LT)[1]) = untaggedKey

----------------------------------------------------------------------------
\* the file name n, which ends with ".txt", without that extension
WithoutExtension(n) == SubSeq(n, 1, Len(n) - Len(TXT))

\* C23: in any state the key set of retrieveAll(area) is exactly the set of
\* the category names c for which the file c.txt lies directly under the area
\* root (the file name with the .txt extension stripped), and for each such c
\* the value is the concatenation of the lists of retrieve(c, area) in key
\* order
C23_AgreesWithRetrieve ==
  (last.op = "retrieveAll" /\ last.status = "ok")
  => /\ DOMAIN last.value = {WithoutExtension(n) : n \in TxtNamesUnder(last.isGlobal)}
     /\ \A c \in DOMAIN last.value :
          last.value[c] = AllEntries(Retrieved(c, last.isGlobal).value)

----------------------------------------------------------------------------
\* call i is a removeSpecificMemory whose write is the step taken
WriteStep(i) ==
  /\ i \in 1..Len(calls) /\ calls[i].op = "removeSpecificMemory"
  /\ calls[i].pc = "write" /\ calls'[i].pc = "done" /\ calls'[i].status = "ok"

\* C24: removeSpecificMemory overwrites the file with the filtered content it
\* read, whatever was written to the file between its read and its write: a
\* write of another call that landed in between is lost
C24_LostUpdate ==
  [][\A i \in 1..Len(calls) :
       WriteStep(i) => files'[Target(calls[i])] = removeContent(calls[i].buf, calls[i].memoryContent)]_vars

\* a remember of "b" and a removeSpecificMemory of "a" on the same file have
\* both completed with success and the file does not hold "b"
C24_Witness ==
  \E i, j \in 1..Len(calls) :
    /\ calls[i].op = "remember" /\ calls[i].data = B
    /\ calls[j].op = "removeSpecificMemory" /\ calls[j].memoryContent = A
    /\ Target(calls[i]) = Target(calls[j])
    /\ calls[i].pc = "done" /\ calls[i].status = "ok"
    /\ calls[j].pc = "done" /\ calls[j].status = "ok"
    /\ Target(calls[i]) \in DOMAIN files
    /\ ~Includes(files[Target(calls[i])], B)

----------------------------------------------------------------------------
\* call c is a clear that has completed with success
ClearDone(c) ==
  c.op \in {"clearMemory", "clearAllGlobalOrLocalMemories"} /\ c.pc = "done" /\ c.status = "ok"

\* C25: only remember creates a category file: under any interleaving, once
\* clearMemory(c, area) or clearAllGlobalOrLocalMemories(area) has completed
\* and no remember has been invoked, the category file is absent
\* (removeSpecificMemory never makes an absent file exist)
C25_OnlyRememberCreates ==
  (\A i \in 1..Len(calls) : calls[i].op # "remember")
  => \A j \in 1..Len(calls) :
       ClearDone(calls[j]) => \A p \in DOMAIN files : ~Under(p, Target(calls[j]))

----------------------------------------------------------------------------
\* C26: once the global and local root directories exist, each exists in
\* every state reachable by any interleaving of store operations, and no
\* remember fails because its area root is missing
C26_RootsStay ==
  /\ globalStorageLocation \in dirs /\ localStorageLocation \in dirs
  /\ \A i \in 1..Len(calls) : calls[i].op = "remember" => calls[i].status # "ENOENT"

----------------------------------------------------------------------------
\* the fragments of the calls q[1], q[2], ... one after the other
RECURSIVE FragmentsOf(_)
FragmentsOf(q) ==
  IF Len(q) = 0 THEN <<>>
  ELSE rememberContent(calls[Head(q)].data, calls[Head(q)].tags) \o FragmentsOf(Tail(q))

\* the remember calls into the file p that have completed
Remembered(p) ==
  {i \in 1..Len(calls) : calls[i].op = "remember" /\ Target(calls[i]) = p /\ calls[i].pc = "done"}

\* no call that removes or clears has been invoked
OnlyRemembers ==
  \A i \in 1..Len(calls) :
    calls[i].op \notin {"removeSpecificMemory", "clearMemory", "clearAllGlobalOrLocalMemories"}

\* C27: concurrent remembers lose nothing: with no remove or clear invoked,
\* every completed remember has succeeded and the file holds what it held at
\* the start followed by the fragment of every completed remember, each
\* whole and contiguous, in some order
C27_NothingLost ==
  OnlyRemembers
  => LET p == getMemoryFilePath(A, TRUE)
         done == Remembered(p)
     IN /\ \A i \in done : calls[i].status = "ok"
        /\ done # {} =>
             /\ p \in DOMAIN files
             /\ \E start \in {<<>>, rememberContent(A, <<>>)}, q \in Orders(done) :
                  files[p] = start \o FragmentsOf(q)

\* two remembers with different bodies into one file have both completed
\* and the file holds both fragments
C27_Witness ==
  /\ Len(calls) >= 2 /\ OnlyRemembers
  /\ calls[1].op = "remember" /\ calls[2].op = "remember"
  /\ calls[1].pc = "done" /\ calls[2].pc = "done"
  /\ calls[1].data # calls[2].data
  /\ Target(calls[1]) = Target(calls[2])
  /\ Includes(files[Target(calls[1])], rememberContent(A, <<>>) \o rememberContent(B, <<>>))

----------------------------------------------------------------------------
\* S occurs in no block of the content
InNoBlock(content, S) ==
  \A i \in 1..Len(Split(content, SEP)) : ~Includes(Split(content, SEP)[i], S)

\* C28: removeSpecificMemory with a substring that occurs in no block of the
\* file is silent: the content of the file after the call is identical to
\* its content before, and retrieve returns the same mapping
C28_SilentNoMatch ==
  ( /\ last.op = "removeSpecificMemory" /\ last.existed
    /\ InNoBlock(last.pre, last.memoryContent) )
  => LET p == getMemoryFilePath(last.category, last.isGlobal)
     IN /\ last.status = "ok"
        /\ last.touched = {}
        /\ p \in DOMAIN files /\ files[p] = last.pre
        /\ Retrieved(last.category, last.isGlobal).value = decode(last.pre)

\* removeSpecificMemory was called with "n", which the separators of the
\* file hold and no block does, and the file is as it was
C28_Witness ==
  /\ last.op = "removeSpecificMemory" /\ last.existed /\ last.status = "ok"
  /\ last.memoryContent = <<"n">>
  /\ Includes(last.pre, last.memoryContent)
  /\ InNoBlock(last.pre, last.memoryContent)
  /\ Len(Blocks(last.pre)) >= 2
  /\ files[getMemoryFilePath(last.category, last.isGlobal)] = last.pre

----------------------------------------------------------------------------
\* the state of the file system after one more removeSpecificMemory with the
\* arguments of the last call
RemovedAgain ==
  removeSpecificMemory(dirs, files, last.category, last.memoryContent, last.isGlobal)

\* C29: removeSpecificMemory is idempotent: for every content of the file and
\* every non-empty substring, a second call with the same arguments succeeds
\* and leaves the content the first call left, with the same blocks, none of
\* which holds the substring
C29_Idempotent ==
  ( /\ last.op = "removeSpecificMemory" /\ last.existed /\ last.status = "ok"
    /\ Len(last.memoryContent) > 0 )
  => LET p == getMemoryFilePath(last.category, last.isGlobal)
     IN /\ RemovedAgain.status = "ok"
        /\ RemovedAgain.f = files
        /\ RemovedAgain.d = dirs
        /\ Split(files[p], SEP) = filterOut(Split(last.pre, SEP), last.memoryContent)
           \/ (files[p] = <<>> /\ filterOut(Split(last.pre, SEP), last.memoryContent) = <<>>)
        /\ InNoBlock(files[p], last.memoryContent)

\* a removeSpecificMemory dropped two blocks and kept one, and a second
\* call changes nothing
C29_Witness ==
  /\ last.op = "removeSpecificMemory" /\ last.existed /\ last.status = "ok"
  /\ Len(last.memoryContent) > 0
  /\ Len(Split(last.pre, SEP))
       >= Len(filterOut(Split(last.pre, SEP), last.memoryContent)) + 2
  /\ Len(Blocks(files[getMemoryFilePath(last.category, last.isGlobal)])) >= 1
  /\ RemovedAgain.f = files

----------------------------------------------------------------------------
\* the block a remember fragment is meant to add: the tag line and the body,
\* or the body when untagged
NewBlock(data, tags) ==
  (IF Len(tags) > 0 THEN <<"#", " ">> \o Join(tags, <<" ">>) \o LT ELSE <<>>) \o data

\* C30: in every state reachable through calls with a non-empty body and a
\* non-empty substring, appending a remember fragment does not change how
\* the earlier content splits into blocks and does not fuse the new block
\* with an earlier one: the blocks of the new content are the non-blank blocks
\* of the old content followed by the one new block
C30_AppendSafe ==
  ( /\ last.op = "remember" /\ last.status = "ok" /\ Len(last.data) > 0 )
  => LET p == getMemoryFilePath(last.category, last.isGlobal)
     IN Blocks(files[p])
          = Blocks(last.pre) \o NonBlank(<<NewBlock(last.data, last.tags)>>)

----------------------------------------------------------------------------
\* the call that was made last works on one category file
SingleCategoryOp == last.op \in {"remember", "removeSpecificMemory", "clearMemory"}

\* the file category.txt directly in the root of the area
CategoryFile(category, isGlobal) == Append(baseDir(isGlobal), category \o TXT)

\* p is a category file of the area
InArea(p, isGlobal) == Len(p) > 0 /\ Parent(p) = baseDir(isGlobal)

\* C31: remember, removeSpecificMemory and clearMemory called with category
\* c and area a change at most the one file c.txt of area a: every other
\* category file of area a and every file of the other area is as it was,
\* for every category string
C31_Frame ==
  SingleCategoryOp
  => /\ last.touched \subseteq {getMemoryFilePath(last.category, last.isGlobal)}
     /\ \A p \in last.touched :
          /\ ~Under(p, baseDir(~last.isGlobal))
          /\ InArea(p, last.isGlobal) => p = CategoryFile(last.category, last.isGlobal)

----------------------------------------------------------------------------
\* the call that was made last is a read
ReadOp == last.op \in {"retrieve", "retrieveAll"}

\* the outcome of the last read, computed again from the files as they are
ReadAgain ==
  IF last.op = "retrieve" THEN retrieve(dirs, files, last.category, last.isGlobal)
  ELSE retrieveAll(dirs, files, last.isGlobal)

\* C32: retrieve and retrieveAll are read-only and stateless: after either,
\* no file and no directory was created, changed or deleted, and the result
\* is the one that the same call made again computes from the content on
\* disk (nothing but the files decides it)
C32_ReadOnly ==
  ReadOp
  => /\ last.touched = {}
     /\ ReadAgain.status = last.status
     /\ ReadAgain.value = last.value
     /\ ReadAgain.d = dirs /\ ReadAgain.f = files

\* a retrieve returned a mapping with entries, which a second retrieve
\* returns again, and nothing was touched
C32_Witness ==
  /\ last.op = "retrieve" /\ last.status = "ok" /\ last.touched = {}
  /\ Len(last.value) > 0
  /\ nops >= 2
  /\ ReadAgain.value = last.value

----------------------------------------------------------------------------
\* a required string field of the tool call t is the empty string
EmptyField(t) ==
  \/ t.category = Empty
  \/ t.tool = "remember_memory" /\ t.data = Empty
  \/ t.tool = "remove_specific_memory" /\ t.memory_content = Empty

\* C33: a tool call whose category, data or memory_content is the empty
\* string is rejected before any store call: no method of MemoryStorage runs
\* and no file or directory changes; so removeSpecificMemory never runs with
\* the empty substring
C33_Boundary ==
  [][ /\ (Len(calls') = 1 /\ EmptyField(calls'[1]))
         => /\ ~calls'[1].accepted
            /\ calls'[1].result.isError
            /\ last' = NoCall
            /\ dirs' = dirs /\ files' = files
      /\ last'.op = "removeSpecificMemory" => Len(last'.memoryContent) >= 1 ]_vars

\* remove_specific_memory with the empty substring was rejected while the
\* category file holds a memory, which is still there
C33_Witness ==
  /\ Len(calls) = 1 /\ ~calls[1].accepted
  /\ calls[1].tool = "remove_specific_memory"
  /\ calls[1].category = A /\ calls[1].memory_content = Empty
  /\ last = NoCall
  /\ getMemoryFilePath(A, calls[1].is_global) \in DOMAIN files
  /\ Len(Blocks(files[getMemoryFilePath(A, calls[1].is_global)])) >= 1

----------------------------------------------------------------------------
\* C34: for every category name c that remember_memory accepts, '*'
\* included, remove_memory_category(c, is_global) removes only the memories
\* stored under c (no other category file of the area is touched) and
\* retrieve_memories(c, is_global) returns only c's memories grouped by tag
\* key (it reads the category c, and returns what retrieve gives for it)
C34_OnlyCategory ==
  (Len(calls) = 1 /\ calls[1].accepted /\ last.status = "ok")
  => LET t == calls[1]
         p == getMemoryFilePath(t.category, t.is_global)
     IN /\ t.tool = "remove_memory_category" => last.touched \subseteq {p}
        /\ t.tool = "retrieve_memories"
           => /\ last.op = "retrieve" /\ last.category = t.category
              /\ t.result.json = retrieve(dirs, files, t.category, t.is_global).value

----------------------------------------------------------------------------
(* index.ts, startup: the module-level statements, loadExistingMemories    *)
(* and the promise chain that initialises and connects the server.  proc   *)
(* carries the steps taken so far, the instructions built and the errors   *)
(* logged; once connected the server takes tool calls.                     *)

\* the text of `instructions` followed by memoriesFollowUpInstructions
BaseInstructions == <<"instructions", "memoriesFollowUpInstructions">>

\* the section of one area: nothing when the mapping has no key
Section(area, memories) ==
  IF DOMAIN memories = {} THEN <<>> ELSE <<[area |-> area, memories |-> memories]>>

\* (mutant) a failure while loading is logged and thrown again
loadExistingMemories_Rethrows(d, f) ==
  LET g == retrieveAll(d, f, TRUE)
  IN IF g.status # "ok"
     THEN [instructions |-> BaseInstructions, errors |-> <<g.status>>,
           steps |-> <<"retrieveAll(true)", "logger.error">>, thrown |-> TRUE]
     ELSE LET l == retrieveAll(d, f, FALSE)
              withGlobal == BaseInstructions \o Section("Global", g.value)
          IN IF l.status # "ok"
             THEN [instructions |-> withGlobal, errors |-> <<l.status>>,
                   steps |-> <<"retrieveAll(true)", "retrieveAll(false)", "logger.error">>,
                   thrown |-> TRUE]
             ELSE [instructions |-> withGlobal \o Section("Local", l.value), errors |-> <<>>,
                   steps |-> <<"retrieveAll(true)", "retrieveAll(false)">>, thrown |-> FALSE]

\* loadExistingMemories: the global memories, then the local ones, are added
\* to the instructions inside one try block; the catch logs and the text
\* built so far is returned
loadExistingMemories(d, f) ==
  LET g == retrieveAll(d, f, TRUE)
  IN IF g.status # "ok"
     THEN [instructions |-> BaseInstructions, errors |-> <<g.status>>,
           steps |-> <<"retrieveAll(true)", "logger.error">>, thrown |-> FALSE]
     ELSE LET l == retrieveAll(d, f, FALSE)
              withGlobal == BaseInstructions \o Section("Global", g.value)
          IN IF l.status # "ok"
             THEN [instructions |-> withGlobal, errors |-> <<l.status>>,
                   steps |-> <<"retrieveAll(true)", "retrieveAll(false)", "logger.error">>,
                   thrown |-> FALSE]
             ELSE [instructions |-> withGlobal \o Section("Local", l.value), errors |-> <<>>,
                   steps |-> <<"retrieveAll(true)", "retrieveAll(false)">>, thrown |-> FALSE]

\* the disks a server is started on: without the storage directories; with
\* memories in both areas; with a directory named a.txt in the global area,
\* or in the local one; with a file where the global root should be; with a
\* file where the parent of both roots should be
StartDisks ==
  LET roots == {<<>>, <<<<"t">>>>, globalStorageLocation, localStorageLocation}
      ga == getMemoryFilePath(A, TRUE)
      la == getMemoryFilePath(A, FALSE)
      lb == getMemoryFilePath(B, FALSE)
  IN {[d |-> {<<>>, <<<<"t">>>>}, f |-> NoFiles],
      [d |-> roots, f |-> Put(Put(NoFiles, ga, rememberContent(A, <<A>>)),
                              lb, rememberContent(B, <<>>))],
      [d |-> roots \cup {ga}, f |-> Put(NoFiles, la, rememberContent(A, <<>>))],
      [d |-> roots \cup {la}, f |-> Put(NoFiles, ga, rememberContent(A, <<>>))],
      [d |-> {<<>>, <<<<"t">>>>, localStorageLocation},
       f |-> Put(NoFiles, globalStorageLocation, <<>>)],
      [d |-> {<<>>}, f |-> Put(NoFiles, <<<<"t">>>>, <<>>)]}

\* the process as node starts it: getMemoryConfig has not run yet
InitStartup ==
  /\ suite = "startup"
  /\ persist \in BOOLEAN
  /\ \E disk \in StartDisks : dirs = disk.d /\ files = disk.f
  /\ phase = "module"
  /\ proc = [Configured(persist) EXCEPT !.config = Process(<<>>, <<>>, <<>>, <<>>).config]
            @@ [steps |-> <<>>, instructions |-> <<>>, errors |-> <<>>, exit |-> "none"]
  /\ last = NoCall
  /\ hist = NoFiles
  /\ nops = 0
  /\ calls = <<>>

\* the statements at module level: getMemoryConfig, initializeStorage, new
\* MemoryStorage; an exception of initializeStorage ends the process
ModuleStartup ==
  /\ phase = "module"
  /\ LET config == getMemoryConfig(proc.home, proc.cwd, proc.argv)
         r == initializeStorage(dirs, files, OnDisk(config, proc.cwd))
     IN /\ dirs' = r.d /\ files' = r.f
        /\ proc' = [proc EXCEPT
                      !.config = config, !.status = r.status, !.fsCalls = r.value,
                      !.steps = IF r.status = "ok"
                                THEN <<"getMemoryConfig", "initializeStorage", "new MemoryStorage">>
                                ELSE <<"getMemoryConfig", "initializeStorage">>,
                      !.exit = IF r.status = "ok" THEN "none" ELSE "initializeStorage"]
        /\ phase' = IF r.status = "ok" THEN "constructed" ELSE "exited"
  /\ UNCHANGED <<persist, last, hist, nops, calls, suite>>

\* loadExistingMemories() runs to its return; a rejection would reach the
\* catch of the chain, which exits
LoadExistingMemories ==
  /\ phase = "constructed"
  /\ \E r \in {loadExistingMemories(dirs, files)} :
       /\ proc' = [proc EXCEPT !.steps = @ \o r.steps, !.instructions = r.instructions,
                                !.errors = r.errors,
                                !.exit = IF r.thrown THEN "loadExistingMemories" ELSE "none"]
       /\ phase' = IF r.thrown THEN "exited" ELSE "loaded"
  /\ UNCHANGED <<dirs, files, persist, last, hist, nops, calls, suite>>

\* the then-callback: initializeServer with the instructions, then
\* server.connect(transport) is called
StartServer ==
  /\ phase = "loaded"
  /\ proc' = [proc EXCEPT !.steps = @ \o <<"initializeServer", "connect">>]
  /\ phase' = "connecting"
  /\ UNCHANGED <<dirs, files, persist, last, hist, nops, calls, suite>>

\* connect resolves: the server is ready and takes tool calls
ConnectResolves ==
  /\ phase = "connecting"
  /\ proc' = [proc EXCEPT !.steps = @ \o <<"ready">>]
  /\ phase' = "run"
  /\ UNCHANGED <<dirs, files, persist, last, hist, nops, calls, suite>>

\* connect rejects: the failure is logged and the process exits
ConnectRejects ==
  /\ phase = "connecting"
  /\ proc' = [proc EXCEPT !.steps = @ \o <<"logger.error">>, !.exit = "connect"]
  /\ phase' = "exited"
  /\ UNCHANGED <<dirs, files, persist, last, hist, nops, calls, suite>>

NextStartup ==
  \/ ModuleStartup
  \/ LoadExistingMemories
  \/ StartServer
  \/ ConnectResolves
  \/ ConnectRejects
  \/ \E c \in {A, B}, b \in {A}, g \in BOOLEAN : RememberMemory(c, b, <<>>, FALSE, g)
  \/ \E c \in {A, Star}, g \in BOOLEAN : RetrieveMemories(c, g)
  \/ \E c \in {A, Star}, g \in BOOLEAN : RemoveMemoryCategory(c, g)
  \/ \E c \in {A}, m \in {A}, g \in BOOLEAN : RemoveSpecificMemoryTool(c, m, g)

SpecStartup == InitStartup /\ [][NextStartup]_vars

----------------------------------------------------------------------------
\* the step x was taken before the i-th step of the process
Before(x, i) == \E j \in 1..(i - 1) : proc.steps[j] = x

\* the step x has been taken
Taken(x) == Before(x, Len(proc.steps) + 1)

\* something is on disk at the place of each storage root
RootsOnDisk ==
  /\ existsSync(dirs, files, globalStorageLocation)
  /\ existsSync(dirs, files, localStorageLocation)

\* C35: startup ordering.  initializeStorage has run (and, with persistence
\* enabled, both roots exist) before any call on the store, at startup or
\* from a tool; the server is connected only after loadExistingMemories has
\* read the global and the local area, or logged a failure, and when nothing
\* failed the instructions hold the memories of both areas as they are on
\* disk; a failure while loading is logged and does not end the process:
\* the server is still initialised and connect is called
C35_StartupOrder ==
  /\ \A i \in 1..Len(proc.steps) :
       /\ proc.steps[i] \in {"new MemoryStorage", "retrieveAll(true)", "retrieveAll(false)"}
          => Before("initializeStorage", i)
       /\ proc.steps[i] = "connect"
          => /\ Before("retrieveAll(true)", i)
             /\ Before("retrieveAll(false)", i) \/ Before("logger.error", i)
             /\ Before("initializeServer", i)
       /\ proc.steps[i] = "ready" => Before("connect", i)
  /\ (phase \in {"constructed", "loaded", "connecting"} /\ persist) => RootsOnDisk
  /\ (calls # <<>> \/ last.op # "none")
     => (phase = "run" /\ Taken("initializeStorage") /\ Taken("ready"))
  /\ (phase \in {"loaded", "connecting"} \/ (phase = "run" /\ calls = <<>>))
     => /\ proc.errors = <<>>
           => proc.instructions
                = BaseInstructions \o Section("Global", RetrievedAll(TRUE).value)
                                   \o Section("Local", RetrievedAll(FALSE).value)
        /\ proc.errors # <<>> => Taken("logger.error")
  /\ phase = "loaded" => ENABLED StartServer
  /\ phase = "exited" => proc.exit \in {"initializeStorage", "connect"}

\* loading the memories failed (a directory named a.txt in the local area),
\* the failure was logged, the global memories are in the instructions, and
\* the server is connected and has served a tool call
C35_Witness ==
  /\ phase = "run" /\ Taken("ready")
  /\ proc.errors # <<>> /\ Taken("logger.error")
  /\ Len(proc.instructions) = Len(BaseInstructions) + 1
  /\ Len(calls) = 1 /\ calls[1].accepted

----------------------------------------------------------------------------
\* the most names with the extension a root can list
MaxListed == Cardinality({A, B} \cup Categories)

\* the most filesystem calls the call c has still to make
FsCallsLeft(c) ==
  CASE c.pc = "done" -> 0
    [] c.pc \in {"append", "write", "unlink", "mkdir"} -> 1
    [] c.pc = "read" -> IF c.op = "retrieve" THEN 1 ELSE 2
    [] c.pc = "rm" -> 2
    [] c.pc = "readdir" -> 1 + 2 * MaxListed
    [] c.pc = "fileExists" -> 2 * Len(c.todo)
    [] c.pc = "fileRead" -> 2 * Len(c.todo) - 1
    [] c.pc = "exists" ->
         1 + (CASE c.op \in {"retrieve", "clearMemory"} -> 1
                [] c.op \in {"removeSpecificMemory", "clearAllGlobalOrLocalMemories"} -> 2
                [] c.op = "retrieveAll" -> 1 + 2 * MaxListed)

\* C36: every invoked store operation terminates, given that each
\* filesystem call returns: each call finishes with success or failure
\* under every interleaving with other calls; each of its steps is one
\* filesystem call and lowers the number it has left, which is bounded from
\* the start; and a call that has not finished can always take its next
\* step, whatever the other calls are doing (no call waits on another)
C36_Terminates ==
  /\ [][ \A i \in 1..Len(calls) :
           calls'[i] # calls[i] => FsCallsLeft(calls'[i]) < FsCallsLeft(calls[i]) ]_vars
  /\ [](\A i \in 1..Len(calls) : calls[i].pc # "done" => ENABLED <<Step(i)>>_vars)
  /\ \A i \in 1..MaxCalls :
       (Len(calls) >= i) ~> (Len(calls) >= i /\ calls[i].pc = "done"
                                            /\ calls[i].status # "pending")

\* a retrieveAll that went through two files and a clearMemory that failed
\* on a file another call had removed are both finished
C36_Witness ==
  /\ Len(calls) = 2
  /\ \A i \in 1..2 : calls[i].pc = "done"
  /\ \E i \in 1..2 : calls[i].op = "retrieveAll" /\ calls[i].status = "ok"
                      /\ Cardinality(DOMAIN calls[i].value) = 2
  /\ \E i \in 1..2 : calls[i].op = "clearMemory"

============================================================================
